---- MODULE Spec2Model ----
(***************************************************************************)
(* Model of the plan recommendation engine (src/src/recommendation/        *)
(* engine.py): MigrationLogic construction, recommend and                  *)
(* apply_human_override, with the configuration of src/src/config.py; and  *)
(* of the services around it: the status marker and the Airtable upsert of *)
(* src/src/migration, the GA visibility report of src/src/utils and the    *)
(* approvals store of src/src/persistence.py.                              *)
(*                                                                         *)
(* Feature names, plan names and subtypes are strings; str.lower,          *)
(* str.strip and the substring test are computed character by character.   *)
(* A Python set is a set.  A Python list whose order the code fixes with   *)
(* sorted() or by appending is a sequence.                                 *)
(***************************************************************************)
EXTENDS Integers, Sequences, FiniteSets, TLC

VARIABLES
    plan_order,        \* keys of self.plan_definitions in insertion order
    plan_definitions,  \* self.plan_definitions: plan name -> set of features
    addon_order,       \* keys of self.add_on_plans in insertion order
    add_on_plans,      \* self.add_on_plans: add-on name -> set of features
    ga_set,            \* self.ga_set
    irrelevant_set,    \* self.irrelevant_set
    feature_alias,     \* self._feature_alias: lower-cased name -> known name
    synonyms,          \* self.synonyms: list of (display name, canonical name)
    cost_bloat_weight, \* self.cost_bloat_weight
    config,            \* the lists of src/src/config.py the engine reads
    pc,                \* position of the caller's loop: "ready" | "returned"
    call,              \* arguments of the call that produced result
    result,            \* the dict returned by the last call
    records,           \* the records of the Airtable table: list of {id, fields}
    requests,          \* what the current call sent with requests.request, and its sleeps
    approvals          \* ApprovalsStore._df: the rows of the approvals table

engine == <<plan_order, plan_definitions, addon_order, add_on_plans,
            ga_set, irrelevant_set, feature_alias, synonyms,
            cost_bloat_weight, config>>
services == <<records, requests, approvals>>
vars == <<plan_order, plan_definitions, addon_order, add_on_plans,
          ga_set, irrelevant_set, feature_alias, synonyms,
          cost_bloat_weight, config, pc, call, result,
          records, requests, approvals>>

-----------------------------------------------------------------------------
(* Bounds of the explored inputs *)

MaxPlans == 2          \* plans in a catalog
MaxUserFeatures == 2   \* entries of an account's featureNames list
MaxRecords == 2        \* records of the Airtable table
MaxRows == 2           \* rows of the DataFrame given to upsert_dataframe
MaxResponses == 3      \* responses the server is scripted to give before it answers 200
MaxApprovals == 3      \* rows the approvals store may hold before an upsert is taken

-----------------------------------------------------------------------------
(* Python str primitives *)

UpperToLower ==
    [c \in {"A","B","C","D","E","F","G","H","I","J","K","L","M",
            "N","O","P","Q","R","S","T","U","V","W","X","Y","Z"} |->
        CASE c = "A" -> "a" [] c = "B" -> "b" [] c = "C" -> "c" [] c = "D" -> "d"
          [] c = "E" -> "e" [] c = "F" -> "f" [] c = "G" -> "g" [] c = "H" -> "h"
          [] c = "I" -> "i" [] c = "J" -> "j" [] c = "K" -> "k" [] c = "L" -> "l"
          [] c = "M" -> "m" [] c = "N" -> "n" [] c = "O" -> "o" [] c = "P" -> "p"
          [] c = "Q" -> "q" [] c = "R" -> "r" [] c = "S" -> "s" [] c = "T" -> "t"
          [] c = "U" -> "u" [] c = "V" -> "v" [] c = "W" -> "w" [] c = "X" -> "x"
          [] c = "Y" -> "y" [] c = "Z" -> "z"]

\* Code points of the characters that occur, for Python's string ordering
Alphabet == " ',0123456789ABCDEFGHIJKLMNOPQRSTUVWXYZ[]abcdefghijklmnopqrstuvwxyz"

CharAt(s, i) == SubSeq(s, i, i)

OrdTable ==
    [ c \in { CharAt(Alphabet, i) : i \in 1..Len(Alphabet) } |->
        CHOOSE i \in 1..Len(Alphabet) : CharAt(Alphabet, i) = c ]

Ord(c) == OrdTable[c]

\* str.lower(), character by character
RECURSIVE LowerChars(_)
LowerChars(s) ==
    IF Len(s) = 0 THEN ""
    ELSE LET c == CharAt(s, 1)
         IN (IF c \in DOMAIN UpperToLower THEN UpperToLower[c] ELSE c)
            \o LowerChars(SubSeq(s, 2, Len(s)))

\* str.strip()
RECURSIVE LStrip(_)
LStrip(s) ==
    IF Len(s) > 0 /\ CharAt(s, 1) = " " THEN LStrip(SubSeq(s, 2, Len(s))) ELSE s

RECURSIVE RStrip(_)
RStrip(s) ==
    IF Len(s) > 0 /\ CharAt(s, Len(s)) = " "
    THEN RStrip(SubSeq(s, 1, Len(s) - 1)) ELSE s

StripChars(s) == RStrip(LStrip(s))

\* the Python test  sub in s  on strings
Contains(sub, s) ==
    \E i \in 1..(Len(s) - Len(sub) + 1) : SubSeq(s, i, i + Len(sub) - 1) = sub

\* the Python comparison  a < b  on strings (by code point, then by length)
RECURSIVE StrLess(_, _)
StrLess(a, b) ==
    IF Len(b) = 0 THEN FALSE
    ELSE IF Len(a) = 0 THEN TRUE
    ELSE IF CharAt(a, 1) = CharAt(b, 1)
         THEN StrLess(SubSeq(a, 2, Len(a)), SubSeq(b, 2, Len(b)))
         ELSE Ord(CharAt(a, 1)) < Ord(CharAt(b, 1))

\* sorted(S) for a set of strings
RECURSIVE Sorted(_)
Sorted(S) ==
    IF S = {} THEN <<>>
    ELSE LET m == CHOOSE x \in S : \A y \in S \ {x} : StrLess(x, y)
         IN <<m>> \o Sorted(S \ {m})

SeqToSet(q) == {q[i] : i \in 1..Len(q)}

\* s.split(sep) for a one-character separator
RECURSIVE Split(_, _)
Split(s, sep) ==
    IF ~Contains(sep, s) THEN <<s>>
    ELSE LET i == CHOOSE i \in 1..Len(s) :
                    CharAt(s, i) = sep /\ \A j \in 1..(i - 1) : CharAt(s, j) # sep
         IN <<SubSeq(s, 1, i - 1)>> \o Split(SubSeq(s, i + 1, Len(s)), sep)

\* ', '.join(q)
RECURSIVE Join(_)
Join(q) ==
    IF q = <<>> THEN ""
    ELSE IF Len(q) = 1 THEN q[1]
    ELSE q[1] \o ", " \o Join(Tail(q))

-----------------------------------------------------------------------------
(* Python values of the featureNames field.  The engine reads an element   *)
(* of a list or tuple only through str(), so the items of a list or tuple  *)
(* are kept as the strings str() gives.                                    *)

PyNone == [type |-> "NoneType"]
PyNaN == [type |-> "float", s |-> "nan"]
PyInt(digits) == [type |-> "int", s |-> digits]
PyStr(s) == [type |-> "str", s |-> s]
PyList(items) == [type |-> "list", items |-> items]
PyTuple(items) == [type |-> "tuple", items |-> items]

\* ValueError or SyntaxError raised by ast.literal_eval
PyError == [type |-> "error"]

\* repr() of a list of strings without quotes or backslashes
Repr(q) == "[" \o Join([ i \in 1..Len(q) |-> "'" \o q[i] \o "'" ]) \o "]"

Digits == {"0", "1", "2", "3", "4", "5", "6", "7", "8", "9"}

\* a decimal integer literal (Python 3 rejects a leading zero)
IsDigits(t) ==
    /\ Len(t) > 0
    /\ \A i \in 1..Len(t) : CharAt(t, i) \in Digits
    /\ (Len(t) > 1 => CharAt(t, 1) # "0")

\* a single-quoted string literal without inner quotes
IsQuoted(t) ==
    /\ Len(t) >= 2
    /\ CharAt(t, 1) = "'"
    /\ CharAt(t, Len(t)) = "'"
    /\ ~Contains("'", SubSeq(t, 2, Len(t) - 1))

IsAtom(t) == IsDigits(t) \/ t = "None" \/ IsQuoted(t)

\* the value of an atom
Atom(t) ==
    IF IsDigits(t) THEN PyInt(t)
    ELSE IF t = "None" THEN PyNone
    ELSE PyStr(SubSeq(t, 2, Len(t) - 1))

\* str() of the value of an atom
AtomStr(t) == IF IsQuoted(t) THEN SubSeq(t, 2, Len(t) - 1) ELSE t

\* [x.strip() for x in parts]
StripAll(parts) == [ i \in 1..Len(parts) |-> StripChars(parts[i]) ]

\* a list display whose elements are the texts parts
ListLiteral(parts) ==
    IF \A i \in 1..Len(parts) : IsAtom(parts[i])
    THEN PyList([ i \in 1..Len(parts) |-> AtomStr(parts[i]) ]) ELSE PyError

\* a tuple written without parentheses whose elements are the texts parts
TupleLiteral(parts) ==
    IF \A i \in 1..Len(parts) : IsAtom(parts[i])
    THEN PyTuple([ i \in 1..Len(parts) |-> AtomStr(parts[i]) ]) ELSE PyError

\* the text between the brackets of a list display
Bracketed(inner) ==
    IF inner = "" THEN PyList(<<>>) ELSE ListLiteral(StripAll(Split(inner, ",")))

Literal(t) ==
    IF IsAtom(t) THEN Atom(t)
    ELSE IF Len(t) >= 2 /\ CharAt(t, 1) = "[" /\ CharAt(t, Len(t)) = "]"
         THEN Bracketed(StripChars(SubSeq(t, 2, Len(t) - 1)))
    ELSE IF Contains(",", t) THEN TupleLiteral(StripAll(Split(t, ",")))
    ELSE PyError

\* ast.literal_eval(s) on the literal forms the inputs use: an integer, None,
\* a quoted string, a list of those and a tuple of those written without
\* parentheses; any other text raises ValueError or SyntaxError
literal_eval(s) == Literal(StripChars(s))

-----------------------------------------------------------------------------
(* src/src/utils/__init__.py: parse_feature_list *)

\* lines 26-30 for a str: the literal, or the comma split after a ValueError
\* or SyntaxError of literal_eval
parse_text(s, literal) ==
    IF literal.type # "error" THEN literal
    ELSE IF Contains(",", s) THEN PyList(StripAll(Split(s, ",")))
    ELSE PyList(<<>>)

\* parse_feature_list.  pd.isna(None) and pd.isna(nan) are True.  pd.isna of
\* a list is an array, one flag per element: its truth value is that flag
\* for one element (False for a string), is False or a ValueError for no
\* element, both ending in [], and is a ValueError for two or more elements,
\* which the except clause turns into [].  A ValueError or SyntaxError of
\* literal_eval falls back to the comma split.
parse_feature_list(feature_str) ==
    IF feature_str.type \in {"NoneType", "float"} THEN PyList(<<>>)
    ELSE IF feature_str.type = "list" THEN
         IF Len(feature_str.items) >= 2 THEN PyList(<<>>) ELSE feature_str
    ELSE parse_text(feature_str.s, literal_eval(feature_str.s))

\* whether  for f in value  raises TypeError
NotIterable(value) == value.type \in {"int", "NoneType", "float"}

\* the elements  for f in value  visits: the items of a list or tuple, the
\* characters of a str
Elements(value) ==
    IF value.type = "str" THEN { CharAt(value.s, i) : i \in 1..Len(value.s) }
    ELSE SeqToSet(value.items)

-----------------------------------------------------------------------------
(* Configuration: src/src/config.py *)

GA_FEATURES ==
    {"activitySequences", "softAoi", "nasAgGridTable", "mapMarkers",
     "weatherLayer", "nasTransmissionInAreaActivityType",
     "searchDraftBreadthFilters", "nasAccidentsActivity", "warRiskArea",
     "newNasRiskDesign", "newNasSideBarDesign", "darkFleetVOI",
     "trafficLanes", "uncertaintyArea", "grayFleetVOI",
     "userAlreadyLoggedInWarning"}

IRRELEVANT_FEATURES ==
    {"activitySequences", "advancedSearch", "advancedSearchOwners",
     "elasticSearch", "meetings"}

EXTRA_COST_FEATURES ==
    {"uboData", "wetCargoData", "visualLinkAnalysis", "nasAgGridTable",
     "maiExpertVesselSummary", "cddScreening", "exportCenter"}

EXTRA_COST_BLOAT_WEIGHT == 100

\* SUBTYPE_KEYWORD_MAP in insertion order: (keyword, family)
SUBTYPE_KEYWORD_MAP ==
    << <<"bunkering", "Bunkering">>, <<"oil", "Oil">>, <<"energy", "Oil">>,
       <<"shipowner", "Shipowners">>, <<"operator", "Shipowners">>,
       <<"insurance", "Insurer">>, <<"insurer", "Insurer">>,
       <<"financial", "Financial">>, <<"bank", "Financial">>,
       <<"commodity", "Commodity">>, <<"trader", "Commodity">>,
       <<"freight", "Maritime">>, <<"maritime", "Maritime">> >>

\* The configuration as deployed, and one in which a costly feature is
\* configured Irrelevant rather than GA.
DeployedConfig ==
    [GA_FEATURES |-> GA_FEATURES,
     IRRELEVANT_FEATURES |-> IRRELEVANT_FEATURES,
     EXTRA_COST_FEATURES |-> EXTRA_COST_FEATURES]

AlternativeConfig ==
    [GA_FEATURES |-> {"weatherLayer", "mapMarkers"},
     IRRELEVANT_FEATURES |-> {"meetings", "uboData"},
     EXTRA_COST_FEATURES |-> {"uboData", "maiExpertVesselSummary", "nasAgGridTable"}]

Configurations == {DeployedConfig, AlternativeConfig}

\* DEFAULT_SYNONYMS in insertion order: (display name, canonical name)
DEFAULT_SYNONYMS ==
    << <<"Advanced Search", "advancedSearchOwners">>,
       <<"Port Control", "portStateControl">>,
       <<"Weather Map", "weatherLayer">> >>

-----------------------------------------------------------------------------
(* Inputs: plan catalogs, add-on bundles, account rows *)

\* Python's None / NaN
None == "<None>"

\* plans a catalog (plan_json) is drawn from: (plan name, raw feature list)
PlanPool ==
    { <<"Bunkering Safe", {"Port Control"}>>,
      <<"Bunkering With Costly", {" portStateControl ", "uboData"}>>,
      <<"Shipowners Core", {"portStateControl", "weatherLayer"}>>,
      <<"Shipowners Advanced", {"portStateControl", "maiExpertVesselSummary",
                                "maiExpertVesselAdverseMedia"}>>,
      <<"Shipowners Bunkering Combo", {"simpleFeature", "nasAgGridTable",
                                       "meetings"}>> }

RECURSIVE SeqsOfDistinct(_, _)
SeqsOfDistinct(S, n) ==
    IF n = 0 THEN {<<>>}
    ELSE {<<>>} \cup { <<x>> \o q : x \in S, q \in SeqsOfDistinct(S, n - 1) }

Distinct(q) == \A i, j \in 1..Len(q) : i # j => q[i][1] # q[j][1]

\* plan_json: a dict in insertion order, at most MaxPlans plans
PlanCatalogs == { q \in SeqsOfDistinct(PlanPool, MaxPlans) : Distinct(q) }

\* what get_add_on_plans() can return: (add-on name, feature list) in order
AddOnCatalogs ==
    { <<>>,
      << <<"MI Expert", {"maiExpertVesselSummary",
                         "maiExpertVesselAdverseMedia"}>>,
         <<"Risk Pack", {"uboData", "simpleFeature"}>> >> }

\* raw feature flags of an account, as they appear in featureNames
RawUserFeatures ==
    {"Port Control", "simpleFeature", "uboData", " UBODATA ",
     "maiExpertVesselSummary", "nasAgGridTable"}

\* extras lists a CSM can request in an override
ExtrasLists ==
    { <<>>, <<"nasAgGridTable">>, <<"simpleFeature">>,
      <<"Port Control", "uboData">> }

SubsetsUpTo(S, n) == { T \in SUBSET S : Cardinality(T) <= n }

\* native Python lists; the engine reads a list only through set
\* comprehensions, so one list per set of entries is enumerated
FeatureLists == { Sorted(T) : T \in SubsetsUpTo(RawUserFeatures, MaxUserFeatures) }

\* account rows: dicts with optional keys "Sub Type", "Subtype", "featureNames"
SubtypeFields ==
    { [k \in {"Sub Type"} |-> "Bunkering"],
      [k \in {"Sub Type"} |-> "Shipowner"],
      [k \in {"Sub Type"} |-> None],
      [k \in {"Subtype"} |-> "Bunkering"],
      [k \in {} |-> None] }

Merge(f, g) == [k \in DOMAIN f \cup DOMAIN g |-> IF k \in DOMAIN f THEN f[k] ELSE g[k]]

\* featureNames as a native list, and as the text of that list in a CSV or
\* Airtable cell
ListedFeatureNames ==
    { PyList(fl) : fl \in FeatureLists }
    \cup { PyStr(Repr(fl)) : fl \in { q \in FeatureLists : Len(q) >= 2 } }

\* other values of the field: missing data, short literals, comma-separated
\* text and text that is not a list
OtherFeatureNames ==
    { PyNone, PyNaN, PyStr(""), PyStr("[]"), PyStr("['uboData']"),
      PyStr("Port Control, uboData"), PyStr("uboData"),
      PyStr("42"), PyStr("None"), PyStr("'uboData'"),
      PyStr("[' port control ', 'Weather Map']") }

FeatureNamesValues == ListedFeatureNames \cup OtherFeatureNames

AccountRows ==
    { Merge(st, [k \in {"featureNames"} |-> fn]) :
        st \in SubtypeFields, fn \in ListedFeatureNames }
    \cup { Merge([k \in {"Sub Type"} |-> "Shipowner"], [k \in {"featureNames"} |-> fn]) :
            fn \in OtherFeatureNames }
    \cup SubtypeFields

\* dict.get(key, default)
Get(d, key, default) == IF key \in DOMAIN d THEN d[key] ELSE default

\* every string the engine strips or lower-cases, with and without its padding
Vocabulary ==
    LET raw == UNION { c.GA_FEATURES \cup c.IRRELEVANT_FEATURES \cup c.EXTRA_COST_FEATURES :
                         c \in Configurations }
               \cup UNION { p[2] : p \in PlanPool } \cup { p[1] : p \in PlanPool }
               \cup UNION { UNION { a[i][2] : i \in 1..Len(a) } : a \in AddOnCatalogs }
               \cup UNION { { a[i][1] : i \in 1..Len(a) } : a \in AddOnCatalogs }
               \cup RawUserFeatures \cup UNION { SeqToSet(e) : e \in ExtrasLists }
               \cup { DEFAULT_SYNONYMS[i][j] : i \in 1..Len(DEFAULT_SYNONYMS), j \in 1..2 }
               \cup { SUBTYPE_KEYWORD_MAP[i][j] : i \in 1..Len(SUBTYPE_KEYWORD_MAP), j \in 1..2 }
               \cup { "Bunkering", "Shipowner", "Unknown", "Bunkering Legacy" }
    IN raw \cup { StripChars(s) : s \in raw }

\* str.strip() and str.lower(): StripChars and LowerChars, computed once for
\* each string of the model
StripTable == [ s \in Vocabulary |-> StripChars(s) ]
LowerTable == [ s \in Vocabulary |-> LowerChars(s) ]

Strip(s) == IF s \in DOMAIN StripTable THEN StripTable[s] ELSE StripChars(s)
Lower(s) == IF s \in DOMAIN LowerTable THEN LowerTable[s] ELSE LowerChars(s)

-----------------------------------------------------------------------------
(* src/src/utils/__init__.py *)

\* clean_feature_name
clean_feature_name(name) == Strip(name)

-----------------------------------------------------------------------------
(* src/src/recommendation/engine.py: canonicalization and construction *)

\* a synonym match that compares the keys as written
synonym_keys_as_written(s, syn) ==
    { i \in 1..Len(syn) : s = Strip(syn[i][1]) }

\* the entries of the synonym table whose key matches s:
\* s.lower() == str(k).strip().lower()
synonym_keys(s, syn) ==
    { i \in 1..Len(syn) : Lower(s) = Lower(Strip(syn[i][1])) }

\* canonicalize(name, synonyms)
canonicalize(name, syn) ==
    LET s == clean_feature_name(name)
        hits == synonym_keys(s, syn)
    IN IF s = "" THEN s
       ELSE IF hits # {}
            THEN Strip(syn[CHOOSE i \in hits : \A j \in hits : i <= j][2])
            ELSE s

\* plan_definitions built by __init__ from plan_json
PlanDefinitionsOf(plan_json, syn) ==
    [ p \in { plan_json[i][1] : i \in 1..Len(plan_json) } |->
        LET i == CHOOSE i \in 1..Len(plan_json) : plan_json[i][1] = p
        IN { canonicalize(x, syn) : x \in plan_json[i][2] } ]

NamesOf(catalog) == [ i \in 1..Len(catalog) |-> catalog[i][1] ]

\* the feature sets _add_alias is called with, in call order
AliasSources(porder, pdefs, aorder, adefs, ga, irr) ==
    [ i \in 1..Len(porder) |-> pdefs[porder[i]] ]
    \o [ i \in 1..Len(aorder) |-> adefs[aorder[i]] ]
    \o << ga, irr >>

\* index of the first source set holding a feature whose key is k
FirstSource(sources, k) ==
    CHOOSE i \in 1..Len(sources) :
        /\ \E f \in sources[i] : Lower(Strip(f)) = k
        /\ \A j \in 1..(i - 1) : \A f \in sources[j] : Lower(Strip(f)) # k

\* the alias maps __init__ can build: a key keeps the first feature added
\* under it; within one set the iteration order is unspecified
RECURSIVE AliasMapsOver(_, _)
AliasMapsOver(keys, sources) ==
    IF keys = {} THEN { <<>> }
    ELSE LET k == CHOOSE x \in keys : TRUE
             cands == { f \in sources[FirstSource(sources, k)] : Lower(Strip(f)) = k }
         IN { (k :> f) @@ m : f \in cands, m \in AliasMapsOver(keys \ {k}, sources) }

AliasMaps(sources) ==
    LET all == UNION { sources[i] : i \in 1..Len(sources) }
    IN AliasMapsOver({ Lower(Strip(f)) : f \in all } \ {""}, sources)

\* MigrationLogic._canon_feature
canon_feature(name) ==
    LET s == clean_feature_name(name)
        hits == synonym_keys(s, synonyms)
    IN IF s = "" THEN s
       ELSE IF hits # {}
            THEN Strip(synonyms[CHOOSE i \in hits : \A j \in hits : i <= j][2])
            ELSE Get(feature_alias, Lower(s), s)

\* a classification that tests the Irrelevant list before the GA list
classify_irrelevant_first(features) ==
    LET cf == { canonicalize(f, synonyms) : f \in features }
    IN [ ga |-> (cf \ irrelevant_set) \cap ga_set,
         irrelevant |-> cf \cap irrelevant_set,
         normal |-> (cf \ ga_set) \ irrelevant_set ]

\* a classification that counts every feature
classify_all_normal(features) ==
    LET cf == { canonicalize(f, synonyms) : f \in features }
    IN [ ga |-> {}, irrelevant |-> {}, normal |-> cf ]

\* MigrationLogic._classify
classify(features) ==
    LET cf == { canonicalize(f, synonyms) : f \in features }
    IN [ ga |-> cf \cap ga_set,
         irrelevant |-> (cf \ ga_set) \cap irrelevant_set,
         normal |-> (cf \ ga_set) \ irrelevant_set ]

\* MigrationLogic.__init__(None, plan_json, None, syn) with
\* get_add_on_plans() = addons and the default cost_bloat_weight
ConstructWith(plan_json, addons, cfg, syn) ==
    /\ synonyms = (IF syn = <<>> THEN DEFAULT_SYNONYMS ELSE syn)
    /\ config = cfg
    /\ plan_order = NamesOf(plan_json)
    /\ plan_definitions = PlanDefinitionsOf(plan_json, synonyms)
    /\ cost_bloat_weight = EXTRA_COST_BLOAT_WEIGHT
    /\ ga_set = { canonicalize(f, synonyms) : f \in cfg.GA_FEATURES }
    /\ irrelevant_set = { canonicalize(f, synonyms) : f \in cfg.IRRELEVANT_FEATURES }
    /\ addon_order = NamesOf(addons)
    /\ add_on_plans = PlanDefinitionsOf(addons, synonyms)
    /\ feature_alias \in AliasMaps(AliasSources(plan_order, plan_definitions,
                                                addon_order, add_on_plans,
                                                ga_set, irrelevant_set))

\* MigrationLogic(plan_json=plan_json): the default synonyms
Construct(plan_json, addons, cfg) == ConstructWith(plan_json, addons, cfg, <<>>)

\* compute_bloat_stats(plan_definitions, plan_name, extras, user_features)
compute_bloat_stats(pdefs, plan_name, extras, user_features) ==
    LET plan_features == Get(pdefs, plan_name, {})
        user_set == { clean_feature_name(f) : f \in SeqToSet(user_features) }
        extras_set == { clean_feature_name(e) : e \in SeqToSet(extras) }
        bloat_features == Sorted((plan_features \cup extras_set) \ user_set)
        cost == { Lower(x) : x \in config.EXTRA_COST_FEATURES }
        bloat_costly == SelectSeq(bloat_features, LAMBDA b : Lower(Strip(b)) \in cost)
    IN [ bloat_features |-> bloat_features,
         bloat_costly |-> bloat_costly,
         bloat_score |-> Len(bloat_features),
         bloat_costly_count |-> Len(bloat_costly) ]

-----------------------------------------------------------------------------
(* Numbers: a Python float is kept as an exact fraction num/den, den > 0 *)

Max(a, b) == IF a >= b THEN a ELSE b
Min(a, b) == IF a <= b THEN a ELSE b

Frac(n, d) == [num |-> n, den |-> d]
FracLess(a, b) == a.num * b.den < b.num * a.den
FracNeg(a) == Frac(0 - a.num, a.den)

\* max(lo, min(hi, num/den)) for integers lo, hi
Clamp(a, lo, hi) == Frac(Max(lo * a.den, Min(hi * a.den, a.num)), a.den)

-----------------------------------------------------------------------------
(* src/src/recommendation/engine.py: recommend *)

\* get_relevant_plans without the family filter
get_relevant_plans_unfiltered(subtype) ==
    IF subtype = None THEN <<>> ELSE plan_order

\* get_relevant_plans matching the keyword against plan names as written
get_relevant_plans_case_sensitive(subtype) ==
    IF subtype = None THEN <<>>
    ELSE LET s == Lower(subtype)
             hits == { i \in 1..Len(SUBTYPE_KEYWORD_MAP) :
                         Contains(SUBTYPE_KEYWORD_MAP[i][1], s) }
         IN IF hits = {} THEN <<>>
            ELSE LET keyword == SUBTYPE_KEYWORD_MAP[CHOOSE i \in hits : \A j \in hits : i <= j][2]
                     kw == Lower(keyword)
                     inFamily(p) == Contains(kw, p)
                 IN SelectSeq(plan_order, inFamily)

\* MigrationLogic.get_relevant_plans
get_relevant_plans(subtype) ==
    IF subtype = None THEN <<>>
    ELSE LET s == Lower(subtype)
             hits == { i \in 1..Len(SUBTYPE_KEYWORD_MAP) :
                         Contains(SUBTYPE_KEYWORD_MAP[i][1], s) }
         IN IF hits = {} THEN <<>>
            ELSE LET keyword == SUBTYPE_KEYWORD_MAP[CHOOSE i \in hits : \A j \in hits : i <= j][2]
                     kw == Lower(keyword)
                     inFamily(p) == Contains(kw, Lower(p))
                 IN SelectSeq(plan_order, inFamily)

\* MigrationLogic._families_for_feature
families_for_feature(feature) ==
    { SUBTYPE_KEYWORD_MAP[i][2] : i \in
        { i \in 1..Len(SUBTYPE_KEYWORD_MAP) :
            \E k \in 1..Len(plan_order) :
                /\ Contains(Lower(SUBTYPE_KEYWORD_MAP[i][2]), Lower(plan_order[k]))
                /\ feature \in plan_definitions[plan_order[k]] } }

\* the score without the early return for an account without features
business_value_score_unguarded(coverage_count, user_count, extras_count, missing_critical, subtype_aligned, synonym_used) ==
    Clamp(Frac(30 * coverage_count
               + ((IF subtype_aligned THEN 10 ELSE 0)
                  - 2 * extras_count
                  - 20 * missing_critical
                  - 5 * synonym_used) * Max(1, user_count),
               Max(1, user_count)), -100, 100)

\* MigrationLogic._business_value_score
business_value_score(coverage_count, user_count, extras_count, missing_critical, subtype_aligned, synonym_used) ==
    IF user_count <= 0 THEN Frac(0, 1)
    ELSE LET den == Max(1, user_count)
             score == 30 * coverage_count
                      + ((IF subtype_aligned THEN 10 ELSE 0)
                         - 2 * extras_count
                         - 20 * missing_critical
                         - 5 * synonym_used) * den
         IN Clamp(Frac(score, den), -100, 100)

\* the cost set built without lower-casing its entries
cost_set_as_configured == config.EXTRA_COST_FEATURES

\* the cost set both entry points build from EXTRA_COST_FEATURES
cost_set == { Lower(x) : x \in config.EXTRA_COST_FEATURES }

\* the costly filter comparing names as written, without strip().lower()
costly_of_case_sensitive(bloat) == SelectSeq(bloat, LAMBDA b : b \in cost_set)

\* [b for b in bloat if str(b).strip().lower() in cost_set]
costly_of(bloat) == SelectSeq(bloat, LAMBDA b : Lower(Strip(b)) \in cost_set)

\* applied_add_ons, lines 211-217: names of the add-ons the account uses
applied_add_ons_of(user_features) ==
    SelectSeq(addon_order, LAMBDA a : add_on_plans[a] \cap user_features # {})

\* an add-on cover that merges nothing
add_on_cover_empty(user_features) == {}

\* an add-on cover that takes the whole bundle of every add-on the account uses
add_on_cover_whole_bundle(user_features) ==
    UNION { IF add_on_plans[addon_order[i]] \cap user_features # {}
            THEN add_on_plans[addon_order[i]] ELSE {} : i \in 1..Len(addon_order) }

\* add_on_cover, lines 212-216: the add-on features the account uses
add_on_cover_of(user_features) ==
    UNION { add_on_plans[addon_order[i]] \cap user_features : i \in 1..Len(addon_order) }

\* merged_extras, lines 256-263: first occurrence per lower-cased key
RECURSIVE dedup_merge(_, _, _)
dedup_merge(xs, seen, acc) ==
    IF xs = <<>> THEN acc
    ELSE LET key == Lower(Strip(Head(xs)))
         IN IF key # "" /\ key \notin seen
            THEN dedup_merge(Tail(xs), seen \cup {key}, Append(acc, Strip(Head(xs))))
            ELSE dedup_merge(Tail(xs), seen, acc)

\* every analysed candidate entering valid_candidates
is_valid_accept_all(row_data) == Len(row_data.bloat_costly) >= 0

\* whether a candidate enters valid_candidates, line 289
is_valid(row_data) == Len(row_data.bloat_costly) = 0

\* row_data of one candidate plan, lines 238-287, from its sorted buckets
row_data(plan, applied_add_ons, add_on_cover, u, p, covered, feature_extras, bloat, user_count, synonym_used) ==
    LET bloat_costly == costly_of(bloat)
        feature_extras_not_in_addons ==
            SelectSeq(feature_extras, LAMBDA f : f \notin add_on_cover)
    IN [ plan |-> plan,
         addOnPlans |-> applied_add_ons,
         covered_features |-> covered,
         extras |-> dedup_merge(feature_extras_not_in_addons \o applied_add_ons, {}, <<>>),
         feature_extras |-> feature_extras,
         bloat_features |-> bloat,
         bloat_score |-> Len(bloat),
         bloat_costly |-> bloat_costly,
         bloat_costly_count |-> Len(bloat_costly),
         bloat_weighted |-> Len(bloat) + cost_bloat_weight * Len(bloat_costly),
         extras_count |-> Len(feature_extras),
         extras_weighted |-> Len(feature_extras),
         coverage_count |-> Len(covered),
         business_value_score |->
             business_value_score(Len(covered), user_count, Len(feature_extras),
                                  0, TRUE, synonym_used),
         gaFeatures |-> Sorted(u.ga \cup p.ga),
         irrelevantFeatures |-> Sorted(u.irrelevant \cup p.irrelevant),
         planFeatures |-> Sorted(p.normal),
         accountFeatures |-> Sorted(u.normal),
         missingFeatures |-> feature_extras ]

\* an analysis that reports every counted plan feature as bloat
analyse_classified_bloat_all(plan, user_features, synonym_hits, applied_add_ons, add_on_cover, u, p) ==
    row_data(plan, applied_add_ons, add_on_cover, u, p,
             Sorted(u.normal \cap p.normal),
             Sorted(u.normal \ p.normal),
             Sorted(p.normal),
             Cardinality(user_features), Cardinality(synonym_hits))

\* lines 225-234: covered, extras and bloat of the two classifications
analyse_classified(plan, user_features, synonym_hits, applied_add_ons, add_on_cover, u, p) ==
    row_data(plan, applied_add_ons, add_on_cover, u, p,
             Sorted(u.normal \cap p.normal),
             Sorted(u.normal \ p.normal),
             Sorted(p.normal \ u.normal),
             Cardinality(user_features), Cardinality(synonym_hits))

\* one pass of the candidate loop, lines 219-287
analyse(plan, user_features, synonym_hits, applied_add_ons, add_on_cover) ==
    analyse_classified(plan, user_features, synonym_hits, applied_add_ons, add_on_cover,
        classify(user_features),
        classify({ clean_feature_name(f) : f \in Get(plan_definitions, plan, {}) }
                 \cup add_on_cover))

\* a sort key that leaves out extras_count
key_less_without_extras(x, y) ==
    \/ x.bloat_weighted < y.bloat_weighted
    \/ /\ x.bloat_weighted = y.bloat_weighted
       /\ 0 - x.coverage_count < 0 - y.coverage_count

\* the sort key of lines 313-318, compared as Python compares tuples
key_less(x, y) ==
    \/ x.extras_count < y.extras_count
    \/ /\ x.extras_count = y.extras_count
       /\ \/ x.bloat_weighted < y.bloat_weighted
          \/ /\ x.bloat_weighted = y.bloat_weighted
             /\ \/ 0 - x.coverage_count < 0 - y.coverage_count
                \/ /\ x.coverage_count = y.coverage_count
                   /\ FracLess(FracNeg(x.business_value_score),
                               FracNeg(y.business_value_score))

\* an insertion that puts x in front of the elements it ties with
RECURSIVE insert_sorted_before_ties(_, _)
insert_sorted_before_ties(q, x) ==
    IF q = <<>> THEN <<x>>
    ELSE IF ~key_less(Head(q), x) THEN <<x>> \o q
    ELSE <<Head(q)>> \o insert_sorted_before_ties(Tail(q), x)

\* insertion of x behind every element that does not sort after it
RECURSIVE insert_sorted(_, _)
insert_sorted(q, x) ==
    IF q = <<>> THEN <<x>>
    ELSE IF key_less(x, Head(q)) THEN <<x>> \o q
    ELSE <<Head(q)>> \o insert_sorted(Tail(q), x)

\* list.sort(key=...): stable
RECURSIVE sort_candidates_from(_, _)
sort_candidates_from(q, acc) ==
    IF q = <<>> THEN acc
    ELSE sort_candidates_from(Tail(q), insert_sorted(acc, Head(q)))

sort_candidates(q) == sort_candidates_from(q, <<>>)

\* an entry of all_candidates / all_plans, lines 351-369
listed(a) ==
    [ plan |-> a.plan,
      addOnPlans |-> a.addOnPlans,
      extras |-> a.extras,
      feature_extras |-> a.feature_extras,
      extras_weighted |-> a.extras_weighted,
      bloat_features |-> a.bloat_features,
      bloat_count |-> a.bloat_score,
      bloat_costly |-> a.bloat_costly,
      bloat_costly_count |-> a.bloat_costly_count,
      bloat_weighted |-> a.bloat_weighted,
      coverage_count |-> a.coverage_count,
      business_value_score |-> a.business_value_score,
      gaFeatures |-> a.gaFeatures,
      irrelevantFeatures |-> a.irrelevantFeatures,
      planFeatures |-> a.planFeatures,
      accountFeatures |-> a.accountFeatures,
      missingFeatures |-> a.missingFeatures ]

\* str(x) for a subtype value
Str(x) == IF x = None THEN "None" ELSE x

\* the 'Success' result, lines 321-402, for the sorted valid candidates
recommend_success(user_features, synonym_hits, applied_add_ons, analyses, valid_candidates, winner, unrecognized) ==
    LET fams == UNION { families_for_feature(f) : f \in user_features }
        ambiguous_mapping == Cardinality(fams) > 1
        den == Max(1, Cardinality(user_features))
        conf == Frac(30 * winner.coverage_count
                     + ((IF ~ambiguous_mapping THEN 10 ELSE 0)
                        - 2 * winner.extras_count
                        - 5 * Cardinality(synonym_hits)) * den, den)
    IN [ status |-> "Success",
         recommended_plan |-> winner.plan,
         addOnPlans |-> applied_add_ons,
         covered_features |-> winner.covered_features,
         extras |-> winner.extras,
         feature_extras |-> winner.feature_extras,
         bloat_features |-> winner.bloat_features,
         bloat_score |-> winner.bloat_score,
         bloat_costly |-> winner.bloat_costly,
         bloat_costly_count |-> winner.bloat_costly_count,
         extras_count |-> winner.extras_count,
         extras_weighted |-> winner.extras_weighted,
         bloat_weighted |-> winner.bloat_weighted,
         business_value_score |-> winner.business_value_score,
         ambiguous_mapping |-> ambiguous_mapping,
         unrecognized_features |-> unrecognized,
         migration_confidence |-> Clamp(conf, 0, 100),
         all_candidates |-> [ i \in 1..Len(valid_candidates) |-> listed(valid_candidates[i]) ],
         all_plans |-> [ i \in 1..Len(analyses) |-> listed(analyses[i]) ],
         gaFeatures |-> winner.gaFeatures,
         irrelevantFeatures |-> winner.irrelevantFeatures,
         planFeatures |-> winner.planFeatures,
         accountFeatures |-> winner.accountFeatures,
         missingFeatures |-> winner.missingFeatures,
         why |-> "GA Features in this plan: "
                 \o (IF winner.gaFeatures = <<>> THEN "None" ELSE Join(winner.gaFeatures)) ]

\* lines 312-320: the sort, and the first sorted candidate as the winner
recommend_sorted(user_features, synonym_hits, applied_add_ons, analyses, valid_candidates, unrecognized) ==
    recommend_success(user_features, synonym_hits, applied_add_ons, analyses,
                      valid_candidates, valid_candidates[1], unrecognized)

\* lines 292-320: 'No Valid Plans' when no candidate is valid
recommend_valid(user_features, synonym_hits, applied_add_ons, analyses, valid_candidates, unrecognized) ==
    IF valid_candidates = <<>> THEN
         [ status |-> "No Valid Plans",
           recommended_plan |-> "Manual Review",
           covered_features |-> <<>>,
           extras |-> <<>>,
           bloat_features |-> <<>>,
           bloat_score |-> 0,
           bloat_costly |-> <<>>,
           bloat_costly_count |-> 0,
           bloat_weighted |-> 0,
           extras_count |-> 0,
           extras_weighted |-> 0,
           all_candidates |-> <<>>,
           reason |-> "All candidates rejected due to paid bloat or no subtype matches",
           ambiguous_mapping |-> FALSE,
           unrecognized_features |-> unrecognized,
           migration_confidence |-> Frac(0, 1) ]
    ELSE recommend_sorted(user_features, synonym_hits, applied_add_ons, analyses,
                          sort_candidates(valid_candidates), unrecognized)

\* lines 219-290: the candidate loop and valid_candidates
recommend_analysed(user_features, synonym_hits, applied_add_ons, analyses) ==
    recommend_valid(user_features, synonym_hits, applied_add_ons, analyses,
        SelectSeq(analyses, is_valid),
        Sorted(user_features
               \ UNION { plan_definitions[p] : p \in DOMAIN plan_definitions }))

\* lines 188-217: 'NO_MATCHING_PLANS' when the subtype has no candidate plan
recommend_candidates(subtype, user_features, synonym_hits, candidates, applied_add_ons, add_on_cover) ==
    IF candidates = <<>> THEN
         [ status |-> "NO_MATCHING_PLANS",
           recommended_plan |-> "Manual Review",
           covered_features |-> <<>>,
           extras |-> <<>>,
           bloat_features |-> <<>>,
           bloat_score |-> 0,
           extras_count |-> 0,
           reason |-> "No plans found for subtype '" \o Str(subtype) \o "'",
           all_candidates |-> <<>>,
           ambiguous_mapping |-> FALSE,
           \* list(user_features): a list in unspecified order, kept as a set
           unrecognized_features |-> user_features,
           migration_confidence |-> Frac(0, 1) ]
    ELSE recommend_analysed(user_features, synonym_hits, applied_add_ons,
            [ i \in 1..Len(candidates) |->
                analyse(candidates[i], user_features, synonym_hits,
                        applied_add_ons, add_on_cover) ])

\* lines 187-217 for the canonical features of the account
recommend_features(subtype, raw_user_features, user_features) ==
    recommend_candidates(subtype, user_features,
        { f \in raw_user_features : canonicalize(f, synonyms) # clean_feature_name(f) },
        get_relevant_plans(subtype),
        applied_add_ons_of(user_features),
        add_on_cover_of(user_features))

\* lines 185-187: subtype and featureNames of the row
recommend_row(subtype, raw_user_features) ==
    recommend_features(subtype, raw_user_features,
                       { canon_feature(f) : f \in raw_user_features })

\* an exception leaving the call instead of a result
Raised(exception) == [raised |-> exception]

\* line 187: the comprehension over raw_user_features
recommend_parsed(subtype, raw_user_features) ==
    IF NotIterable(raw_user_features) THEN Raised("TypeError")
    ELSE recommend_row(subtype, Elements(raw_user_features))

\* MigrationLogic.recommend
recommend(account_row) ==
    recommend_parsed(Get(account_row, "Sub Type", Get(account_row, "Subtype", "Unknown")),
                     parse_feature_list(Get(account_row, "featureNames", PyList(<<>>))))

-----------------------------------------------------------------------------
(* src/src/recommendation/engine.py: apply_human_override *)

\* lines 435-453: the red line on the costly bloat, and the two results
override_result(plan_name, u, e, p, bloat_features, paid_bloat) ==
    IF paid_bloat # <<>> THEN
         [ status |-> "REJECTED_RED_LINE",
           reason |-> "Override introduces paid bloat",
           paid_bloat |-> paid_bloat ]
    ELSE
         [ status |-> "APPROVED_BY_CSM",
           final_plan |-> plan_name,
           extras |-> Sorted(e.normal),
           covered_features |-> Sorted(u.normal \cap p.normal),
           bloat_features |-> bloat_features,
           bloat_costly |-> paid_bloat,
           bloat_costly_count |-> Len(paid_bloat),
           bloat_score |-> Len(bloat_features),
           gaFeatures |-> Sorted(u.ga \cup p.ga),
           irrelevantFeatures |-> Sorted(u.irrelevant \cup p.irrelevant) ]

\* lines 427-433: bloat of the effective bundle and its costly part
override_bloat(plan_name, u, e, p, bloat_features) ==
    override_result(plan_name, u, e, p, bloat_features, costly_of(bloat_features))

\* lines 423-431: effective_bundle = plan_norm | extras_norm
override_classified(plan_name, u, e, p) ==
    override_bloat(plan_name, u, e, p, Sorted((p.normal \cup e.normal) \ u.normal))

\* lines 413-425: the three classifications
override_canon(plan_name, extras_canon, user_canon) ==
    override_classified(plan_name, classify(user_canon), classify(extras_canon),
        classify(Get(plan_definitions, plan_name, {}) \cup add_on_cover_of(user_canon)))

\* MigrationLogic.apply_human_override
apply_human_override(plan_name, extras_list, user_feature_list) ==
    override_canon(plan_name,
                   { canon_feature(e) : e \in SeqToSet(extras_list) },
                   { canon_feature(f) : f \in SeqToSet(user_feature_list) })

-----------------------------------------------------------------------------
(* The engine and its caller *)

NoCall == [op |-> "none"]
NoResult == [status |-> "none"]

\* nothing of the services is in use: an empty table, no request, no approval
ServicesIdle ==
    /\ records = <<>>
    /\ requests = <<>>
    /\ approvals = <<>>

Init ==
    /\ \E plan_json \in PlanCatalogs, addons \in AddOnCatalogs, cfg \in Configurations :
         Construct(plan_json, addons, cfg)
    /\ pc = "ready"
    /\ call = NoCall
    /\ result = NoResult
    /\ ServicesIdle

\* plan names a CSM can pick: those of the catalog and one that is not in it
OverridePlans == SeqToSet(plan_order) \cup {"Bunkering Legacy"}

\* a recommend that adds the add-on cover to the catalog's own feature sets
RecommendInPlace(account_row) ==
    /\ pc = "ready"
    /\ call' = [op |-> "recommend", account_row |-> account_row]
    /\ result' = recommend(account_row)
    /\ pc' = "returned"
    /\ plan_definitions' =
         LET raw == parse_feature_list(Get(account_row, "featureNames", PyList(<<>>)))
             cover == IF NotIterable(raw) THEN {}
                      ELSE add_on_cover_of({ canon_feature(f) : f \in Elements(raw) })
         IN [ p \in DOMAIN plan_definitions |-> plan_definitions[p] \cup cover ]
    /\ UNCHANGED <<plan_order, addon_order, add_on_plans, ga_set, irrelevant_set,
                   feature_alias, synonyms, cost_bloat_weight, config>>
    /\ UNCHANGED services

\* rec = logic.recommend(row) in the caller's loop over accounts
Recommend(account_row) ==
    /\ pc = "ready"
    /\ call' = [op |-> "recommend", account_row |-> account_row]
    /\ result' = recommend(account_row)
    /\ pc' = "returned"
    /\ UNCHANGED engine
    /\ UNCHANGED services

\* res = logic.apply_human_override(plan, extras, user_features)
ApplyHumanOverride(plan_name, extras_list, user_feature_list) ==
    /\ pc = "ready"
    /\ call' = [op |-> "apply_human_override", plan_name |-> plan_name,
                extras_list |-> extras_list, user_features |-> user_feature_list]
    /\ result' = apply_human_override(plan_name, extras_list, user_feature_list)
    /\ pc' = "returned"
    /\ UNCHANGED engine
    /\ UNCHANGED services

\* the caller stores what it needs of the result and moves to the next account
NextAccount ==
    /\ pc = "returned"
    /\ pc' = "ready"
    /\ call' = NoCall
    /\ result' = NoResult
    /\ UNCHANGED engine
    /\ UNCHANGED services

Next ==
    \/ \E account_row \in AccountRows : Recommend(account_row)
    \/ \E plan_name \in OverridePlans, extras_list \in ExtrasLists,
          user_feature_list \in FeatureLists :
            ApplyHumanOverride(plan_name, extras_list, user_feature_list)
    \/ NextAccount

Spec == Init /\ [][Next]_vars

-----------------------------------------------------------------------------
(* The helper functions called on their own: canonicalize, _canon_feature, *)
(* _classify and compute_bloat_stats, on engines built with the default    *)
(* and with another synonym table                                          *)

\* a table whose canonical name is itself a display name of the table
ChainedSynonyms ==
    << <<"Port Control", "Port State Control">>,
       <<"Port State Control", "portStateControl">> >>

\* the synonyms argument: None, or a table
SynonymTables == { <<>>, ChainedSynonyms }

\* plan_json of the engines the helpers are called on
HelperCatalogs ==
    { << <<"Bunkering Base", {"portStateControl"}>> >>,
      << <<"Bunkering Base", {"Port Control", "uboData"}>> >>,
      << <<"Bunkering Base", {"PortStateControl", "activitySequences"}>> >> }

\* names given to canonicalize and _canon_feature
HelperNames ==
    { "Port Control", " port control ", "Port State Control", "portStateControl",
      " PORTSTATECONTROL", "uboData", "Weather Map", "simpleFeature", "", " " }

\* features given to _classify
HelperFeatures ==
    { "activitySequences", "meetings", "weatherLayer", "Weather Map",
      "Port Control", "uboData" }

\* lists given to compute_bloat_stats
HelperLists ==
    { <<>>, <<"Port Control">>, <<"portStateControl">>, <<" uboData ">>,
      <<"portStateControl", "uboData">> }

HelperInit ==
    /\ \E plan_json \in HelperCatalogs, syn \in SynonymTables :
         ConstructWith(plan_json, <<>>, DeployedConfig, syn)
    /\ pc = "ready"
    /\ call = NoCall
    /\ result = NoResult
    /\ ServicesIdle

\* canonicalize(name, self.synonyms)
Canonicalize(name) ==
    /\ pc = "ready"
    /\ call' = [op |-> "canonicalize", name |-> name]
    /\ result' = [value |-> canonicalize(name, synonyms)]
    /\ pc' = "returned"
    /\ UNCHANGED engine
    /\ UNCHANGED services

\* logic._canon_feature(name)
CanonFeature(name) ==
    /\ pc = "ready"
    /\ call' = [op |-> "_canon_feature", name |-> name]
    /\ result' = [value |-> canon_feature(name)]
    /\ pc' = "returned"
    /\ UNCHANGED engine
    /\ UNCHANGED services

\* logic._classify(features)
Classify(features) ==
    /\ pc = "ready"
    /\ call' = [op |-> "_classify", features |-> features]
    /\ result' = classify(features)
    /\ pc' = "returned"
    /\ UNCHANGED engine
    /\ UNCHANGED services

\* compute_bloat_stats(logic.plan_definitions, plan_name, extras, user)
ComputeBloatStats(plan_name, extras, user_features) ==
    /\ pc = "ready"
    /\ call' = [op |-> "compute_bloat_stats", plan_name |-> plan_name,
                extras |-> extras, user_features |-> user_features]
    /\ result' = compute_bloat_stats(plan_definitions, plan_name, extras, user_features)
    /\ pc' = "returned"
    /\ UNCHANGED engine
    /\ UNCHANGED services

HelperNext ==
    \/ \E name \in HelperNames : Canonicalize(name)
    \/ \E name \in HelperNames : CanonFeature(name)
    \/ \E features \in SubsetsUpTo(HelperFeatures, 2) : Classify(features)
    \/ \E plan_name \in OverridePlans, extras \in HelperLists, user_features \in HelperLists :
          ComputeBloatStats(plan_name, extras, user_features)
    \/ NextAccount

HelperSpec == HelperInit /\ [][HelperNext]_vars

-----------------------------------------------------------------------------
(* Vocabulary of the properties *)

IsRecommend == pc = "returned" /\ call.op = "recommend" /\ "status" \in DOMAIN result
IsOverride == pc = "returned" /\ call.op = "apply_human_override"

\* a feature of the costly-feature set, compared case-insensitively
IsCostly(f) == \E c \in config.EXTRA_COST_FEATURES : Lower(Strip(f)) = Lower(Strip(c))

\* a counted (Normal) feature: neither GA nor Irrelevant
IsNormal(f) == f \notin ga_set /\ f \notin irrelevant_set

\* the account's canonical feature set of the current call
AccountFeatures ==
    LET raw == IF call.op = "recommend"
               THEN Elements(parse_feature_list(
                        Get(call.account_row, "featureNames", PyList(<<>>))))
               ELSE SeqToSet(call.user_features)
    IN { canon_feature(f) : f \in raw }

\* the subtype the current recommend call reads from its row
AccountSubtype ==
    Get(call.account_row, "Sub Type", Get(call.account_row, "Subtype", "Unknown"))

\* the canonical extras requested by the current override
RequestedExtras == { canon_feature(e) : e \in SeqToSet(call.extras_list) }

\* the catalog features of a plan (none for a name the catalog lacks)
CatalogFeatures(plan) == Get(plan_definitions, plan, {})

Normal(S) == { f \in S : IsNormal(f) }

-----------------------------------------------------------------------------
(* C1: whenever recommend returns 'Success', the winner's bloat_costly is
   empty and its bloat_costly_count is 0, and no entry of all_candidates
   (nor the winner's own bloat_features) lists a costly feature. *)
C1_SuccessHasNoCostlyBloat ==
    (IsRecommend /\ result.status = "Success") =>
        /\ result.bloat_costly = <<>>
        /\ result.bloat_costly_count = 0
        /\ \A b \in SeqToSet(result.bloat_features) : ~IsCostly(b)
        /\ \A i \in 1..Len(result.all_candidates) :
             \A b \in SeqToSet(result.all_candidates[i].bloat_features) : ~IsCostly(b)

\* a Success in which a relevant plan was kept out for its costly bloat
C1_Witness ==
    /\ IsRecommend /\ result.status = "Success"
    /\ \E i \in 1..Len(result.all_plans) : result.all_plans[i].bloat_costly_count > 0
    /\ Len(result.all_candidates) >= 1

(* C2 as amended: apply_human_override returns 'REJECTED_RED_LINE' exactly
   when (plan_normal \cup extras_normal) \ user_normal holds a costly
   feature, and paid_bloat then lists exactly those features; otherwise it
   returns 'APPROVED_BY_CSM' with an empty bloat_costly.  In particular a
   costly extra that is counted (neither GA nor Irrelevant) and that the
   account does not use is rejected. *)
C2_PaidBloat ==
    { f \in (Normal(CatalogFeatures(call.plan_name)) \cup Normal(RequestedExtras))
            \ Normal(AccountFeatures) : IsCostly(f) }

C2_MainPart ==
    /\ result.status \in {"REJECTED_RED_LINE", "APPROVED_BY_CSM"}
    /\ result.status = "REJECTED_RED_LINE" <=> C2_PaidBloat # {}
    /\ result.status = "REJECTED_RED_LINE" =>
         /\ SeqToSet(result.paid_bloat) = C2_PaidBloat
         /\ Len(result.paid_bloat) = Cardinality(C2_PaidBloat)
    /\ result.status = "APPROVED_BY_CSM" =>
         result.bloat_costly = <<>> /\ result.bloat_costly_count = 0

C2_OverrideRedLineForCountedExtras ==
    IsOverride =>
        /\ C2_MainPart
        /\ \A e \in RequestedExtras :
             (IsCostly(e) /\ IsNormal(e) /\ e \notin AccountFeatures)
                 => result.status = "REJECTED_RED_LINE"

\* an override rejected for a costly extra the account does not use
C2_Witness ==
    /\ IsOverride /\ result.status = "REJECTED_RED_LINE"
    /\ \E e \in RequestedExtras : IsCostly(e) /\ IsNormal(e) /\ e \notin AccountFeatures
    /\ \A f \in CatalogFeatures(call.plan_name) : ~IsCostly(f)

(* C2 as stated, in the configuration as deployed: the same, with every
   costly extra the account does not use rejected, whatever its
   classification. *)
C2_AsStated ==
    (IsOverride /\ config = DeployedConfig) =>
        /\ C2_MainPart
        /\ \A e \in RequestedExtras :
             (IsCostly(e) /\ e \notin AccountFeatures)
                 => result.status = "REJECTED_RED_LINE"

\* the bundle a Success or an approval grants: the plan's catalog features,
\* plus the requested extras of an override
GrantedBundle ==
    IF call.op = "recommend"
    THEN CatalogFeatures(result.recommended_plan)
    ELSE CatalogFeatures(call.plan_name) \cup RequestedExtras

Granted ==
    \/ IsRecommend /\ result.status = "Success"
    \/ IsOverride /\ result.status = "APPROVED_BY_CSM"

(* C3 as amended: whenever recommend returns 'Success' or
   apply_human_override returns 'APPROVED_BY_CSM', the granted bundle holds
   no costly feature that is counted (neither GA nor Irrelevant) and absent
   from the account's canonical feature set. *)
C3_NoCountedCostlyFeatureForFree ==
    Granted =>
        \A f \in GrantedBundle :
            (IsCostly(f) /\ IsNormal(f)) => f \in AccountFeatures

\* a grant of a bundle holding a counted costly feature the account uses
C3_Witness ==
    /\ Granted
    /\ \E f \in GrantedBundle : IsCostly(f) /\ IsNormal(f) /\ f \in AccountFeatures

(* C3 as stated, in the configuration as deployed: the granted bundle holds
   no costly feature that is absent from the account's canonical feature
   set. *)
C3_AsStated ==
    (Granted /\ config = DeployedConfig) =>
        \A f \in GrantedBundle : IsCostly(f) => f \in AccountFeatures

-----------------------------------------------------------------------------
\* the entries of all_plans that have no costly bloat
ValidPlans == { i \in 1..Len(result.all_plans) : result.all_plans[i].bloat_costly_count = 0 }

\* the number of feature-extras of a listed candidate
ExtrasCount(a) == Len(a.feature_extras)

(* C4: in a 'Success', if candidates A and B both have no costly bloat and A
   has strictly fewer feature-extras than B, then B is not recommended; the
   recommended plan's extras_count is the minimum over the candidates
   without costly bloat. *)
C4_FewestExtrasWins ==
    (IsRecommend /\ result.status = "Success") =>
        /\ \A i, j \in ValidPlans :
             ExtrasCount(result.all_plans[i]) < ExtrasCount(result.all_plans[j])
                 => result.recommended_plan # result.all_plans[j].plan
        /\ \A i \in ValidPlans : result.extras_count <= ExtrasCount(result.all_plans[i])
        /\ \E i \in ValidPlans :
             /\ result.all_plans[i].plan = result.recommended_plan
             /\ result.extras_count = ExtrasCount(result.all_plans[i])

\* a Success whose winner has more bloat but fewer extras than another
\* candidate without costly bloat
C4_Witness ==
    /\ IsRecommend /\ result.status = "Success"
    /\ \E j \in ValidPlans :
         /\ result.extras_count < ExtrasCount(result.all_plans[j])
         /\ result.bloat_weighted > result.all_plans[j].bloat_weighted

\* the sort tuple of a listed candidate: a sorts strictly before b
TupleBefore(a, b) ==
    \/ ExtrasCount(a) < ExtrasCount(b)
    \/ /\ ExtrasCount(a) = ExtrasCount(b)
       /\ \/ a.bloat_weighted < b.bloat_weighted
          \/ /\ a.bloat_weighted = b.bloat_weighted
             /\ \/ a.coverage_count > b.coverage_count
                \/ /\ a.coverage_count = b.coverage_count
                   /\ FracLess(b.business_value_score, a.business_value_score)

\* position of a plan in the catalog's insertion order
CatalogIndex(plan) == CHOOSE k \in 1..Len(plan_order) : plan_order[k] = plan

(* C5: in a 'Success', all_candidates holds exactly the candidates without
   costly bloat, ordered by (extras_count ascending, bloat_weighted
   ascending, coverage_count descending, business_value_score descending);
   candidates that tie on the whole tuple keep their catalog insertion
   order; recommended_plan is the plan of the first element. *)
C5_AllCandidatesSortedStably ==
    (IsRecommend /\ result.status = "Success") =>
        LET ac == result.all_candidates
        IN /\ Len(ac) = Cardinality(ValidPlans)
           /\ \A i \in ValidPlans : \E k \in 1..Len(ac) : ac[k] = result.all_plans[i]
           /\ \A k, m \in 1..Len(ac) :
                k < m => /\ ~TupleBefore(ac[m], ac[k])
                         /\ ~TupleBefore(ac[k], ac[m])
                              => CatalogIndex(ac[k].plan) < CatalogIndex(ac[m].plan)
           /\ result.recommended_plan = ac[1].plan

\* a Success with two candidates that tie on the whole tuple
C5_Witness ==
    /\ IsRecommend /\ result.status = "Success"
    /\ Len(result.all_candidates) >= 2
    /\ ~TupleBefore(result.all_candidates[1], result.all_candidates[2])
    /\ ~TupleBefore(result.all_candidates[2], result.all_candidates[1])

\* every plan a recommend result returns or lists
ListedPlans ==
    (IF result.recommended_plan = "Manual Review" THEN {} ELSE {result.recommended_plan})
    \cup { result.all_candidates[i].plan : i \in 1..Len(result.all_candidates) }
    \cup (IF result.status = "Success"
          THEN { result.all_plans[i].plan : i \in 1..Len(result.all_plans) } ELSE {})

MatchesFamily(plan, family) == Contains(Lower(family), Lower(plan))

(* C6 as amended: recommend for subtype 'Shipowner' returns and lists only
   plans whose name matches the 'Shipowners' family keyword, so a plan whose
   name matches the 'Bunkering' keyword is returned or listed only if its
   name matches 'Shipowners' as well; and recommend for subtype 'Bunkering'
   returns and lists only plans whose name matches 'Bunkering'. *)
C6_OnlyPlansOfTheAccountsFamily ==
    IsRecommend =>
        /\ AccountSubtype = "Shipowner" =>
             \A p \in ListedPlans : MatchesFamily(p, "Shipowners")
        /\ AccountSubtype = "Bunkering" =>
             \A p \in ListedPlans : MatchesFamily(p, "Bunkering")

\* a Success for a Shipowner account on a catalog that also holds a plan of
\* the Bunkering family only
C6_Witness ==
    /\ IsRecommend /\ result.status = "Success"
    /\ AccountSubtype = "Shipowner"
    /\ \E k \in 1..Len(plan_order) :
         MatchesFamily(plan_order[k], "Bunkering") /\ ~MatchesFamily(plan_order[k], "Shipowners")

(* C6 as stated: recommend for subtype 'Shipowner' never returns or lists a
   plan whose name matches the 'Bunkering' family keyword, and recommend for
   subtype 'Bunkering' never returns or lists a plan whose name matches the
   'Shipowners' family keyword. *)
C6_AsStated ==
    IsRecommend =>
        /\ AccountSubtype = "Shipowner" =>
             \A p \in ListedPlans : ~MatchesFamily(p, "Bunkering")
        /\ AccountSubtype = "Bunkering" =>
             \A p \in ListedPlans : ~MatchesFamily(p, "Shipowners")

-----------------------------------------------------------------------------
\* the family keyword of a subtype: that of the first keyword of
\* SUBTYPE_KEYWORD_MAP found in the lower-cased subtype, if any
FamilyKeywords(subtype) ==
    IF subtype = None THEN {}
    ELSE { SUBTYPE_KEYWORD_MAP[i][2] : i \in
             { i \in 1..Len(SUBTYPE_KEYWORD_MAP) :
                 /\ Contains(SUBTYPE_KEYWORD_MAP[i][1], Lower(subtype))
                 /\ \A j \in 1..(i - 1) :
                      ~Contains(SUBTYPE_KEYWORD_MAP[j][1], Lower(subtype)) } }

\* the plans of the catalog whose name contains the account's family keyword
RelevantPlans ==
    { p \in SeqToSet(plan_order) :
        \E fam \in FamilyKeywords(AccountSubtype) : MatchesFamily(p, fam) }

\* a plan has costly bloat for the account: a counted costly feature of the
\* plan that is not a counted feature of the account
HasCostlyBloat(plan) ==
    \E f \in Normal(CatalogFeatures(plan)) \ Normal(AccountFeatures) : IsCostly(f)

\* the decision between the three statuses, on the calls that return a result
C7_StatusDecision ==
    IsRecommend =>
        /\ result.status \in {"NO_MATCHING_PLANS", "No Valid Plans", "Success"}
        /\ result.status = "NO_MATCHING_PLANS" <=> RelevantPlans = {}
        /\ result.status = "No Valid Plans" <=>
             (RelevantPlans # {} /\ \A p \in RelevantPlans : HasCostlyBloat(p))
        /\ result.status = "Success" <=> \E p \in RelevantPlans : ~HasCostlyBloat(p)
        /\ result.status # "Success" =>
             /\ result.recommended_plan = "Manual Review"
             /\ result.covered_features = <<>>
             /\ result.extras = <<>>
             /\ result.bloat_features = <<>>
             /\ result.all_candidates = <<>>
             /\ result.bloat_score = 0
             /\ result.extras_count = 0
             /\ "reason" \in DOMAIN result /\ result.reason # ""

\* every relevant plan rejected for costly bloat
C7_Witness ==
    /\ IsRecommend /\ result.status = "No Valid Plans"
    /\ RelevantPlans # {}

\* a call of recommend has ended, with a result or with an exception
RecommendCalled == pc = "returned" /\ call.op = "recommend"

(* C7: recommend always returns a result whose status is one of three values:
   'NO_MATCHING_PLANS' iff the subtype is null, maps to no family keyword, or
   no plan name contains the family keyword; 'No Valid Plans' iff some plan
   is relevant and every relevant plan has costly bloat; 'Success' iff some
   relevant plan has no costly bloat.  Outside 'Success', recommended_plan is
   'Manual Review', covered_features, extras, bloat_features and
   all_candidates are empty, bloat_score and extras_count are 0 and a reason
   is given. *)
C7_AlwaysReturnsADecidedStatus ==
    RecommendCalled => ("status" \in DOMAIN result /\ C7_StatusDecision)

\* the add-ons of which the account uses at least one feature
UsedAddOns == { a \in SeqToSet(addon_order) : add_on_plans[a] \cap AccountFeatures # {} }

(* C8: for an account using a feature of an add-on, a candidate whose base
   plan already contains the add-on's features does not have the add-on's
   name in its extras, and a candidate whose base plan lacks them has it. *)
C8_AddOnListedOnlyIfMissing ==
    (IsRecommend /\ result.status = "Success") =>
        \A a \in UsedAddOns : \A i \in 1..Len(result.all_plans) :
            LET row == result.all_plans[i]
            IN /\ add_on_plans[a] \subseteq CatalogFeatures(row.plan)
                    => a \notin SeqToSet(row.extras)
               /\ add_on_plans[a] \cap CatalogFeatures(row.plan) = {}
                    => a \in SeqToSet(row.extras)

(* C9: for every candidate row, when the account uses at least one feature
   of an add-on bundle, none of the account-used features of that bundle is
   listed in the row's extras or feature_extras, and the bundle's name
   appears in the row's extras, up to case and padding. *)
C9_AddOnSuppression ==
    (IsRecommend /\ result.status = "Success") =>
        \A a \in UsedAddOns : \A i \in 1..Len(result.all_plans) :
            LET row == result.all_plans[i]
            IN /\ \A f \in add_on_plans[a] \cap AccountFeatures :
                    /\ f \notin SeqToSet(row.extras)
                    /\ f \notin SeqToSet(row.feature_extras)
               /\ \E e \in SeqToSet(row.extras) : Lower(Strip(e)) = Lower(Strip(a))

\* a candidate whose base plan lacks a counted add-on feature the account
\* uses, and which has a feature-extra besides
C9_Witness ==
    /\ IsRecommend /\ result.status = "Success"
    /\ \E a \in UsedAddOns : \E i \in 1..Len(result.all_plans) :
         /\ \E f \in add_on_plans[a] \cap AccountFeatures :
              IsNormal(f) /\ f \notin CatalogFeatures(result.all_plans[i].plan)
         /\ result.all_plans[i].feature_extras # <<>>

(* C10: addOnPlans is exactly the set of add-on bundles that share a feature
   with the account's canonical feature set; a candidate's effective plan
   features are its base plan's counted features plus the counted shared
   add-on features only; hence its bloat_features are among its base plan's
   catalog features. *)
C10_AddOnApplication ==
    (IsRecommend /\ result.status = "Success") =>
        /\ SeqToSet(result.addOnPlans) = UsedAddOns
        /\ \A i \in 1..Len(result.all_plans) :
             LET row == result.all_plans[i]
                 shared == UNION { add_on_plans[a] \cap AccountFeatures : a \in UsedAddOns }
             IN /\ SeqToSet(row.addOnPlans) = UsedAddOns
                /\ SeqToSet(row.planFeatures)
                     = Normal(CatalogFeatures(row.plan)) \cup Normal(shared)
                /\ SeqToSet(row.bloat_features) \subseteq CatalogFeatures(row.plan)

\* one add-on applied in part (the account uses some of its features, the
\* plan has none of them) while another add-on is not applied
C10_Witness ==
    /\ IsRecommend /\ result.status = "Success"
    /\ \E a \in UsedAddOns :
         /\ ~(add_on_plans[a] \subseteq AccountFeatures)
         /\ add_on_plans[a] \cap CatalogFeatures(result.recommended_plan) = {}
    /\ UsedAddOns # SeqToSet(addon_order)
-----------------------------------------------------------------------------
(* Claims on the helper functions and on the parsing of featureNames *)

\* the call that returned is a call of op
IsCall(op) == pc = "returned" /\ call.op = op

(* C11: canonicalization is idempotent: for every feature name and every
   synonym table and alias table an engine can be constructed with,
   canonicalizing the canonical form returns it unchanged, for the
   module-level canonicalize and for the engine's _canon_feature. *)
C11_CanonicalizationIdempotent ==
    /\ IsCall("canonicalize") => canonicalize(result.value, synonyms) = result.value
    /\ IsCall("_canon_feature") => canon_feature(result.value) = result.value

(* C12: _classify partitions its canonicalized input into three pairwise
   disjoint buckets whose union is the whole input, and a feature configured
   in both the GA list and the Irrelevant list is placed in the GA bucket and
   never in the Irrelevant bucket. *)
C12_ClassifyPartitionsWithGAFirst ==
    IsCall("_classify") =>
        LET cf == { canonicalize(f, synonyms) : f \in call.features }
            ga_list == { canonicalize(g, synonyms) : g \in config.GA_FEATURES }
            irrelevant_list == { canonicalize(g, synonyms) : g \in config.IRRELEVANT_FEATURES }
        IN /\ result.ga \cap result.irrelevant = {}
           /\ result.ga \cap result.normal = {}
           /\ result.irrelevant \cap result.normal = {}
           /\ result.ga \cup result.irrelevant \cup result.normal = cf
           /\ \A f \in cf :
                /\ f \in ga_list <=> f \in result.ga
                /\ (f \in irrelevant_list /\ f \notin ga_list) <=> f \in result.irrelevant
                /\ (f \in ga_list /\ f \in irrelevant_list) =>
                     (f \in result.ga /\ f \notin result.irrelevant)

\* a feature of both lists classified next to a feature of the Irrelevant
\* list only
C12_Witness ==
    /\ IsCall("_classify")
    /\ call.features = {"activitySequences", "meetings"}
    /\ "activitySequences" \in config.GA_FEATURES \cap config.IRRELEVANT_FEATURES
    /\ result.ga = {"activitySequences"}
    /\ result.irrelevant = {"meetings"}

\* the rows of all_plans and all_candidates of a 'Success' result
ListedRows == SeqToSet(result.all_plans) \cup SeqToSet(result.all_candidates)

\* a feature of the engine's GA set or Irrelevant set
IsUncounted(f) == f \in ga_set \cup irrelevant_set

(* C13: no feature of the GA set or of the Irrelevant set appears in
   covered_features, feature_extras or bloat_features of a candidate row of
   recommend (the rows of all_plans and all_candidates, and the winner's
   lists in the result), nor in extras, covered_features or bloat_features of
   an approved apply_human_override result, whichever side supplied it. *)
C13_UncountedFeaturesNeverListed ==
    /\ (IsRecommend /\ result.status = "Success") =>
         /\ \A f \in SeqToSet(result.covered_features) \cup SeqToSet(result.feature_extras)
                     \cup SeqToSet(result.bloat_features) : ~IsUncounted(f)
         /\ \A row \in ListedRows :
              \A f \in SeqToSet(row.feature_extras) \cup SeqToSet(row.bloat_features)
                        \cup SeqToSet(row.planFeatures) \cup SeqToSet(row.accountFeatures) :
                  ~IsUncounted(f)
    /\ (IsOverride /\ result.status = "APPROVED_BY_CSM") =>
         \A f \in SeqToSet(result.extras) \cup SeqToSet(result.covered_features)
                   \cup SeqToSet(result.bloat_features) : ~IsUncounted(f)

\* a recommendation for an account holding an uncounted feature of a plan
\* that holds another uncounted feature the account lacks
C13_Witness ==
    /\ IsRecommend /\ result.status = "Success"
    /\ \E f \in AccountFeatures : IsUncounted(f)
    /\ \E f \in CatalogFeatures(result.recommended_plan) :
         IsUncounted(f) /\ f \notin AccountFeatures
    /\ result.covered_features # <<>>

\* the raw entries of featureNames that recommend iterates over
RawAccountFeatures ==
    Elements(parse_feature_list(Get(call.account_row, "featureNames", PyList(<<>>))))

\* the synonym entries whose display name is f, case-insensitively
SynonymsOf(f) ==
    { i \in 1..Len(synonyms) : Lower(Strip(f)) = Lower(Strip(synonyms[i][1])) }

\* the canonical names the account supplied under a synonym display name
SoftMatched ==
    { Strip(synonyms[CHOOSE i \in SynonymsOf(f) : \A j \in SynonymsOf(f) : i <= j][2]) :
        f \in { g \in RawAccountFeatures : Strip(g) # "" /\ SynonymsOf(g) # {} } }

\* c is neither an extra nor a feature-extra of the row, whose count of
\* extras is reported as extras_weighted
NotAnExtra(c, row) ==
    /\ c \notin SeqToSet(row.feature_extras)
    /\ c \notin SeqToSet(row.extras)
    /\ row.extras_weighted = Len(row.feature_extras)

(* C14 as amended: an account feature supplied under a synonym display name
   (matched case-insensitively) is treated as its canonical feature: for
   every candidate plan that contains the canonical name, the feature is not
   counted in extras_count or listed in extras, and it is in covered_features
   when the canonical feature is counted (neither GA nor Irrelevant). *)
C14_SoftMatchingOfCountedFeatures ==
    (IsRecommend /\ result.status = "Success") =>
        \A c \in SoftMatched :
            /\ \A i \in 1..Len(result.all_plans) :
                 LET row == result.all_plans[i]
                 IN c \in CatalogFeatures(row.plan) =>
                      /\ NotAnExtra(c, row)
                      /\ IsNormal(c) =>
                           /\ c \in SeqToSet(row.accountFeatures) \cap SeqToSet(row.planFeatures)
                           /\ row.coverage_count >= 1
            /\ c \in CatalogFeatures(result.recommended_plan) =>
                 /\ c \notin SeqToSet(result.extras) \cup SeqToSet(result.feature_extras)
                 /\ result.extras_count = Len(result.feature_extras)
                 /\ IsNormal(c) => c \in SeqToSet(result.covered_features)

\* ' port control ' supplied by the account and covered by the recommended
\* plan as portStateControl
C14_Witness ==
    /\ IsRecommend /\ result.status = "Success"
    /\ " port control " \in RawAccountFeatures
    /\ "portStateControl" \in SoftMatched
    /\ "portStateControl" \in CatalogFeatures(result.recommended_plan)
    /\ "portStateControl" \in SeqToSet(result.covered_features)

(* C14 as stated: for every candidate plan that contains the canonical name
   of a feature supplied under a synonym display name, the feature is in
   covered_features and is not counted in extras_count or listed in extras. *)
C14_AsStated ==
    (IsRecommend /\ result.status = "Success") =>
        \A c \in SoftMatched :
            c \in CatalogFeatures(result.recommended_plan) =>
                /\ c \notin SeqToSet(result.extras) \cup SeqToSet(result.feature_extras)
                /\ c \in SeqToSet(result.covered_features)

\* the canonical forms of the names of a list
CanonicalNames(names) == { canonicalize(n, synonyms) : n \in SeqToSet(names) }

(* C15: compute_bloat_stats compares names in canonical form: when every
   feature of the plan is used by the account, possibly under a synonym
   display name, and the extras are among the account's features,
   bloat_features is empty and bloat_score is 0. *)
C15_NoBloatWhenPlanAndExtrasAreUsed ==
    (/\ IsCall("compute_bloat_stats")
     /\ CatalogFeatures(call.plan_name) \subseteq CanonicalNames(call.user_features)
     /\ CanonicalNames(call.extras) \subseteq CanonicalNames(call.user_features))
        => (result.bloat_features = <<>> /\ result.bloat_score = 0)

\* the value of the row's featureNames field
FeatureNamesField == Get(call.account_row, "featureNames", PyList(<<>>))

\* the features the result reports as evaluated for the account
EvaluatedFeatures ==
    SeqToSet(result.accountFeatures) \cup SeqToSet(result.gaFeatures)
        \cup SeqToSet(result.irrelevantFeatures)

(* C16: the account feature list is accepted in three forms with the same
   meaning; in particular a native list of any length (0, 1, 2 or more
   elements) is used unchanged, so that recommend evaluates every listed
   feature. *)
C16_NativeListIsUsedUnchanged ==
    (IsRecommend /\ result.status = "Success" /\ FeatureNamesField.type = "list")
        => \A f \in SeqToSet(FeatureNamesField.items) :
               canonicalize(canon_feature(f), synonyms) \in EvaluatedFeatures

(* C17: recommend never raises, whatever the value of the row's featureNames
   field: a value that is missing, null, or a string that cannot be parsed
   into a list of feature names (a number, None, a quoted word) is treated as
   an empty feature list, and a result with a status is returned. *)
C17_UnparseableFeatureNamesAreEmpty ==
    (RecommendCalled /\ FeatureNamesField.type # "list")
        => /\ "raised" \notin DOMAIN result
           /\ (/\ FeatureNamesField.type = "str"
               /\ literal_eval(FeatureNamesField.s).type \in {"int", "NoneType", "str"})
                => result = recommend_row(Get(call.account_row, "Sub Type", "Unknown"), {})

\* the result in the next state is the one the call computes from the engine
\* as it is now and from the call's own arguments
ResultOfTheCall ==
    /\ call'.op = "recommend" => result' = recommend(call'.account_row)
    /\ call'.op = "apply_human_override" =>
         result' = apply_human_override(call'.plan_name, call'.extras_list,
                                        call'.user_features)

(* C18: after construction, every step of any sequence of recommend and
   apply_human_override calls leaves plan_definitions, add_on_plans, ga_set,
   irrelevant_set, the synonym table and the alias table unchanged, and the
   result of each call is the one determined by the engine configuration and
   the call's own arguments, whatever calls ran before. *)
C18_CallsLeaveTheEngineUnchanged ==
    [][ /\ plan_definitions' = plan_definitions
        /\ add_on_plans' = add_on_plans
        /\ ga_set' = ga_set
        /\ irrelevant_set' = irrelevant_set
        /\ synonyms' = synonyms
        /\ feature_alias' = feature_alias
        /\ ResultOfTheCall ]_vars

\* a recommend that combined the features of an add-on with a plan that does
\* not have them, the catalog still being without them after the call
C18_Witness ==
    /\ IsRecommend /\ result.status = "Success"
    /\ \E a \in SeqToSet(result.addOnPlans) :
           add_on_plans[a] \cap CatalogFeatures(result.recommended_plan) = {}

\* the counted (Normal) features of the account, in canonical form
CountedAccountFeatures == Normal({ canonicalize(f, synonyms) : f \in AccountFeatures })

\* the identities between the lists of a row and its accountFeatures and
\* planFeatures, the covered features being given by their list or their count
RowIdentities(row, account, plan) ==
    /\ SeqToSet(row.feature_extras) = account \ plan
    /\ SeqToSet(row.bloat_features) = plan \ account
    /\ SeqToSet(row.feature_extras) \cap plan = {}
    /\ SeqToSet(row.bloat_features) \cap account = {}
    /\ Len(row.feature_extras) = Cardinality(account \ plan)
    /\ Len(row.bloat_features) = Cardinality(plan \ account)
    /\ account = CountedAccountFeatures

(* C19: for every candidate row, covered_features = accountFeatures \cap
   planFeatures, feature_extras = accountFeatures \ planFeatures and
   bloat_features = planFeatures \ accountFeatures; so covered_features and
   feature_extras partition accountFeatures, covered_features and
   bloat_features partition planFeatures, and extras_count + coverage_count
   is the number of counted (Normal) account features.  The rows of all_plans
   and all_candidates report coverage_count and extras_weighted; the winner's
   covered_features and extras_count are in the result itself. *)
C19_RowIdentities ==
    (IsRecommend /\ result.status = "Success") =>
        /\ \A row \in ListedRows :
             /\ RowIdentities(row, SeqToSet(row.accountFeatures), SeqToSet(row.planFeatures))
             /\ row.coverage_count =
                    Cardinality(SeqToSet(row.accountFeatures) \cap SeqToSet(row.planFeatures))
             /\ row.extras_weighted + row.coverage_count = Cardinality(CountedAccountFeatures)
        /\ RowIdentities(result, SeqToSet(result.accountFeatures), SeqToSet(result.planFeatures))
        /\ SeqToSet(result.covered_features) =
               SeqToSet(result.accountFeatures) \cap SeqToSet(result.planFeatures)
        /\ Len(result.covered_features) = Cardinality(SeqToSet(result.covered_features))
        /\ SeqToSet(result.covered_features) \cup SeqToSet(result.feature_extras)
               = SeqToSet(result.accountFeatures)
        /\ SeqToSet(result.covered_features) \cup SeqToSet(result.bloat_features)
               = SeqToSet(result.planFeatures)
        /\ result.extras_count + Len(result.covered_features)
               = Cardinality(CountedAccountFeatures)

\* a winner with a covered feature, a feature extra and a bloat feature
C19_Witness ==
    /\ IsRecommend /\ result.status = "Success"
    /\ result.covered_features # <<>>
    /\ result.feature_extras # <<>>
    /\ result.bloat_features # <<>>

\* the features of all the plans of the catalog
AllPlanFeatures == UNION { plan_definitions[p] : p \in DOMAIN plan_definitions }

\* unrecognized_features as a set: list(user_features) is kept as a set, the
\* sorted lists of the other two returns as sequences
UnrecognizedFeatures ==
    IF result.status = "NO_MATCHING_PLANS" THEN result.unrecognized_features
    ELSE SeqToSet(result.unrecognized_features)

(* C20: in every result returned by recommend, whatever its status,
   unrecognized_features is exactly the set of the account's canonical
   features that are present in no plan's feature set across the whole
   catalog (not only the candidate family). *)
C20_UnrecognizedAreInNoPlan ==
    IsRecommend => UnrecognizedFeatures = AccountFeatures \ AllPlanFeatures

-----------------------------------------------------------------------------
(* src/src/migration/status_marker.py: the Ready flag and the Prepared     *)
(* status of the records of an Airtable table.  A record and its fields    *)
(* are dicts: functions from keys to values; a field Airtable leaves out   *)
(* is a key the dict does not have.                                        *)

PyBool(b) == [type |-> "bool", b |-> b]

\* str(value)
py_str(value) ==
    IF value.type = "NoneType" THEN "None"
    ELSE IF value.type = "bool" THEN (IF value.b THEN "True" ELSE "False")
    ELSE value.s

EmptyDict == << >>

\* _truthy(val); int(nan) raises ValueError, which the except turns into False
truthy(val) ==
    IF val.type = "bool" THEN val.b
    ELSE IF val.type = "NoneType" THEN FALSE
    ELSE IF val.type = "int" THEN val.s # "0"
    ELSE IF val.type = "float" THEN FALSE
    ELSE \/ LowerChars(StripChars(py_str(val))) \in {"true", "yes", "y", "1", "ready"}
         \/ /\ LowerChars(StripChars(py_str(val))) # ""
            /\ LowerChars(StripChars(py_str(val))) # "nan"

\* rec.get("fields", {}) or {}
FieldsOf(rec) == Get(rec, "fields", EmptyDict)

\* str(fields.get(status_col, "")).strip()
current_status(rec, status_col) ==
    StripChars(py_str(Get(FieldsOf(rec), status_col, PyStr(""))))

\* lines 41-53: the record passes every `continue` of the loop
is_updated(rec, ready_col, status_col, prepared_value, only_if_blank) ==
    /\ Get(rec, "id", "") # ""
    /\ truthy(Get(FieldsOf(rec), ready_col, PyNone))
    /\ ~(only_if_blank /\ current_status(rec, status_col) # "")
    /\ current_status(rec, status_col) # prepared_value

\* lines 54-57: the update appended for a record
update_for(rec, status_col, prepared_value, prepared_at_field, now_iso) ==
    [ id |-> rec["id"],
      fields |-> IF prepared_at_field # ""
                 THEN (status_col :> PyStr(prepared_value)) @@ (prepared_at_field :> PyStr(now_iso))
                 ELSE (status_col :> PyStr(prepared_value)) ]

\* the records kept by the loop, in the order of the input
RECURSIVE updated_records(_, _, _, _, _)
updated_records(recs, ready_col, status_col, prepared_value, only_if_blank) ==
    IF recs = <<>> THEN <<>>
    ELSE (IF is_updated(Head(recs), ready_col, status_col, prepared_value, only_if_blank)
          THEN <<Head(recs)>> ELSE <<>>)
         \o updated_records(Tail(recs), ready_col, status_col, prepared_value, only_if_blank)

\* the update of each kept record
updates_for(kept, status_col, prepared_value, prepared_at_field, now_iso) ==
    [ i \in 1..Len(kept) |->
        update_for(kept[i], status_col, prepared_value, prepared_at_field, now_iso) ]

\* plan_status_updates(records, ready_col=..., status_col=..., prepared_value=...,
\*                     prepared_at_field=..., only_if_blank=...)
plan_status_updates(recs, ready_col, status_col, prepared_value, prepared_at_field, only_if_blank, now_iso) ==
    updates_for(updated_records(recs, ready_col, status_col, prepared_value, only_if_blank),
                status_col, prepared_value, prepared_at_field, now_iso)

\* a record of the table after a PATCH of the updates that name its id
patched(rec, updates) ==
    IF \E i \in 1..Len(updates) : "id" \in DOMAIN rec /\ updates[i].id = rec["id"]
    THEN LET u == updates[CHOOSE i \in 1..Len(updates) : updates[i].id = rec["id"]]
         IN ("id" :> rec["id"]) @@ ("fields" :> (u.fields @@ FieldsOf(rec)))
    ELSE rec

\* update_records_by_id(cfg, updates, typecast=True): PATCH of the fields of
\* the records named by id; the table after it
update_records_by_id(recs, updates) == [ i \in 1..Len(recs) |-> patched(recs[i], updates) ]

-----------------------------------------------------------------------------
(* The status marker run against a table *)

ReadyCol == "Ready For migration"
StatusCol == "Migration Status"
PreparedAtField == "Prepared At"

\* time.strftime(...) of the run
NowIso == "now"

\* values of the Ready flag: checkbox, number, text, null
ReadyValues ==
    { PyBool(TRUE), PyBool(FALSE), PyInt("1"), PyInt("0"),
      PyStr("yes"), PyStr("no"), PyStr(""), PyNone }

\* values of the status column
StatusValues == { PyStr(""), PyStr("Prepared"), PyStr("Queued"), PyStr(" Prepared") }

\* the fields of a record: each of the two columns present or left out
RecordFields ==
    { (ReadyCol :> r) @@ (StatusCol :> s) : r \in ReadyValues, s \in StatusValues }
        \cup { (ReadyCol :> r) : r \in ReadyValues }
        \cup { (StatusCol :> s) : s \in StatusValues }

RecordIds == [ i \in 1..(MaxRecords + 1) |-> "rec" \o ToString(i) ]

\* the tables: records rec1, rec2, ... in this order, the first one possibly
\* without an id
Tables ==
    UNION { { [ i \in 1..n |-> ("id" :> RecordIds[i]) @@ ("fields" :> f[i]) ] :
                f \in [1..n -> RecordFields] } : n \in 0..MaxRecords }
        \cup { << ("fields" :> f), ("id" :> RecordIds[2]) @@ ("fields" :> f) >> :
                 f \in RecordFields }

PreparedValues == { "Prepared", " Prepared" }

MarkerInit ==
    /\ Construct(<<>>, <<>>, DeployedConfig)
    /\ pc = "ready"
    /\ call = NoCall
    /\ result = NoResult
    /\ records \in Tables
    /\ requests = <<>>
    /\ approvals = <<>>

\* updates = plan_status_updates(records, prepared_value=..., only_if_blank=...)
PlanStatusUpdates(prepared_value, only_if_blank) ==
    /\ pc = "ready"
    /\ call' = [op |-> "plan_status_updates", prepared_value |-> prepared_value,
                only_if_blank |-> only_if_blank]
    /\ result' = [updates |-> plan_status_updates(records, ReadyCol, StatusCol, prepared_value,
                                                   PreparedAtField, only_if_blank, NowIso)]
    /\ pc' = "returned"
    /\ UNCHANGED engine
    /\ UNCHANGED services

\* lines 84-87 of mark_prepared_from_ready, for the planned updates
mark_result(updates, dry_run) ==
    [ candidates |-> Len(updates),
      updated |-> IF dry_run \/ updates = <<>> THEN 0 ELSE Len(updates) ]

\* mark_prepared_from_ready(cfg, prepared_value=..., only_if_blank=..., dry_run=...)
MarkPreparedFromReady(prepared_value, only_if_blank, dry_run) ==
    /\ pc = "ready"
    /\ call' = [op |-> "mark_prepared_from_ready", prepared_value |-> prepared_value,
                only_if_blank |-> only_if_blank, dry_run |-> dry_run]
    /\ result' = mark_result(plan_status_updates(records, ReadyCol, StatusCol, prepared_value,
                                                 PreparedAtField, only_if_blank, NowIso),
                             dry_run)
    /\ records' = IF dry_run THEN records
                  ELSE update_records_by_id(records,
                           plan_status_updates(records, ReadyCol, StatusCol, prepared_value,
                                               PreparedAtField, only_if_blank, NowIso))
    /\ pc' = "returned"
    /\ UNCHANGED engine
    /\ UNCHANGED <<requests, approvals>>

MarkerNext ==
    \/ \E prepared_value \in PreparedValues, only_if_blank \in BOOLEAN :
         PlanStatusUpdates(prepared_value, only_if_blank)
    \/ \E prepared_value \in PreparedValues, only_if_blank \in BOOLEAN, dry_run \in BOOLEAN :
         MarkPreparedFromReady(prepared_value, only_if_blank, dry_run)
    \/ NextAccount

MarkerSpec == MarkerInit /\ [][MarkerNext]_vars

-----------------------------------------------------------------------------
(* Claims on the status marker *)

\* an affirmative ready flag: True, a non-zero number, or an affirmative word
IsAffirmative(val) ==
    \/ val.type = "bool" /\ val.b
    \/ val.type = "int" /\ val.s # "0"
    \/ val.type = "str" /\ LowerChars(StripChars(val.s)) \in {"true", "yes", "y", "1", "ready"}

\* the record has an id, an affirmative ready flag and a blank status
IsReadyAndBlank(rec) ==
    /\ "id" \in DOMAIN rec
    /\ ReadyCol \in DOMAIN FieldsOf(rec) /\ IsAffirmative(FieldsOf(rec)[ReadyCol])
    /\ StatusCol \in DOMAIN FieldsOf(rec) => StripChars(py_str(FieldsOf(rec)[StatusCol])) = ""

\* the ids of a list of records or of updates, in order
IdsOf(q) == [ i \in 1..Len(q) |-> q[i]["id"] ]

(* C21: plan_status_updates with only_if_blank=True emits an update, setting
   the status column to the prepared value, for exactly the records that have
   an id, an affirmative ready flag (True, a non-zero number, or a word such
   as 'yes') and a blank status; a record whose ready value is 'no', empty or
   missing, or whose status is not blank, yields no update; the updates keep
   the order of the records. *)
C21_UpdatesExactlyReadyBlankRecords ==
    (IsCall("plan_status_updates") /\ call.only_if_blank) =>
        /\ IdsOf(result.updates) = IdsOf(SelectSeq(records, IsReadyAndBlank))
        /\ \A i \in 1..Len(result.updates) :
               result.updates[i].fields[StatusCol] = PyStr(call.prepared_value)

\* the updates a second plan_status_updates with the same arguments returns
SecondPass ==
    plan_status_updates(records, ReadyCol, StatusCol, call.prepared_value,
                        PreparedAtField, call.only_if_blank, NowIso)

\* the records whose status is the prepared value
AlreadyPrepared ==
    { i \in 1..Len(records) :
        /\ "id" \in DOMAIN records[i]
        /\ StatusCol \in DOMAIN FieldsOf(records[i])
        /\ FieldsOf(records[i])[StatusCol] = PyStr(call.prepared_value) }

(* C22: marking is idempotent: for either value of only_if_blank, once the
   updates returned by plan_status_updates have been applied to the records,
   a second plan_status_updates on the resulting records returns no updates;
   and a record whose status already equals the prepared value is never
   updated again. *)
C22_MarkingIsIdempotent ==
    /\ (IsCall("mark_prepared_from_ready") /\ ~call.dry_run) => SecondPass = <<>>
    /\ IsCall("plan_status_updates") =>
         \A i \in AlreadyPrepared : \A j \in 1..Len(result.updates) :
             result.updates[j].id # records[i]["id"]

-----------------------------------------------------------------------------
(* src/src/utils/ga_features.py: the GA visibility report of an account row *)

\* GA_FEATURES of src/src/config.py as the list it is, entry by entry
GA_FEATURES_LIST ==
    << "activitySequences", "softAoi", "nasAgGridTable", "mapMarkers", "weatherLayer",
       "nasTransmissionInAreaActivityType", "searchDraftBreadthFilters",
       "nasAccidentsActivity", "weatherLayer", "warRiskArea", "newNasRiskDesign",
       "newNasSideBarDesign", "darkFleetVOI", "trafficLanes", "uncertaintyArea",
       "grayFleetVOI", "userAlreadyLoggedInWarning" >>

\* GA_SET = set(GA_FEATURES)
GA_SET == SeqToSet(GA_FEATURES_LIST)

\* the truth value of what parse_feature_list returned
IsTruthy(value) ==
    IF value.type \in {"list", "tuple"} THEN value.items # <<>>
    ELSE IF value.type = "str" THEN value.s # ""
    ELSE IF value.type = "int" THEN value.s # "0"
    ELSE FALSE

\* the columns of preferred_cols, in order, that a row of the report can have
PreferredCols == << "featureNames", "Feature Flags" >>

\* the fallback scan: "feature" in name or name == "ff"
IsFeatureColumn(k) == Contains("feature", LowerChars(k)) \/ LowerChars(k) = "ff"

\* the columns of the row, in the order of the row's keys, that yield features
YieldingCols(row, cols) ==
    SelectSeq(cols, LAMBDA col : /\ col \in DOMAIN row
                                 /\ row[col].type # "NoneType"
                                 /\ IsTruthy(parse_feature_list(row[col])))

\* extract_user_features(row): the preferred columns, then any feature column
extract_user_features(row, keys) ==
    IF YieldingCols(row, PreferredCols) # <<>>
    THEN parse_feature_list(row[YieldingCols(row, PreferredCols)[1]])
    ELSE IF YieldingCols(row, SelectSeq(keys, IsFeatureColumn)) # <<>>
    THEN parse_feature_list(row[YieldingCols(row, SelectSeq(keys, IsFeatureColumn))[1]])
    ELSE PyList(<<>>)

\* row.get("name") or row.get("SalesForce_Account_NAME") or ""
NameOf(row) ==
    IF "name" \in DOMAIN row /\ row["name"] # "" THEN row["name"]
    ELSE IF "SalesForce_Account_NAME" \in DOMAIN row THEN row["SalesForce_Account_NAME"]
    ELSE ""

\* lines 54-63 for the set of the user's flags
ga_visibility(name, user_feats) ==
    [ name |-> StripChars(name),
      ga_present |-> Sorted(GA_SET \cap user_feats),
      ga_missing |-> Sorted(GA_SET \ user_feats),
      ga_present_count |-> Cardinality(GA_SET \cap user_feats),
      ga_missing_count |-> Cardinality(GA_SET \ user_feats),
      ga_total |-> Cardinality(GA_SET) ]

\* line 53: set(map(str, ...)) of what extract_user_features returned
ga_visibility_of(name, feats) ==
    IF NotIterable(feats) THEN Raised("TypeError")
    ELSE ga_visibility(name, Elements(feats))

\* ga_visibility_for_row(row), keys being the row's keys in order
ga_visibility_for_row(row, keys) == ga_visibility_of(NameOf(row), extract_user_features(row, keys))

\* the flags a report row can list
FlagPool == { "activitySequences", "softAoi", "weatherLayer", "nonGaFeat" }

FlagLists == { Sorted(T) : T \in SUBSET FlagPool }

\* what a feature column of the report can hold
FlagValues ==
    { PyList(fl) : fl \in FlagLists }
        \cup { PyStr(Repr(fl)) : fl \in FlagLists }
        \cup { PyStr("softAoi, weatherLayer"), PyStr(""), PyStr("42"), PyNone }

\* rows of the report: name, featureNames and a column of another name
ReportRows ==
    { Merge(n, Merge(f, c)) :
        n \in { << >>, [k \in {"name"} |-> "Acme Co"] },
        f \in { << >> } \cup { [k \in {"featureNames"} |-> v] : v \in FlagValues },
        c \in { << >> } \cup { [k \in {"custom_features"} |-> v] :
                                 v \in { PyList(<<"softAoi">>), PyStr("['weatherLayer', 'nonGaFeat']") } } }

ReportKeys == << "name", "featureNames", "custom_features" >>

\* vis = ga_visibility_for_row(row)
GaVisibilityForRow(row) ==
    /\ pc = "ready"
    /\ call' = [op |-> "ga_visibility_for_row", row |-> row]
    /\ result' = ga_visibility_for_row(row, SelectSeq(ReportKeys, LAMBDA k : k \in DOMAIN row))
    /\ pc' = "returned"
    /\ UNCHANGED engine
    /\ UNCHANGED services

ReportInit ==
    /\ Construct(<<>>, <<>>, DeployedConfig)
    /\ pc = "ready"
    /\ call = NoCall
    /\ result = NoResult
    /\ ServicesIdle

ReportNext ==
    \/ \E row \in ReportRows : GaVisibilityForRow(row)
    \/ NextAccount

ReportSpec == ReportInit /\ [][ReportNext]_vars

\* the flags the row lists in its first feature column that lists any
ListedFlags ==
    LET cols == SelectSeq(<<"featureNames", "custom_features">>,
                          LAMBDA k : k \in DOMAIN call.row /\ call.row[k].type = "list"
                                        /\ call.row[k].items # <<>>)
    IN IF cols = <<>> THEN {} ELSE SeqToSet(call.row[cols[1]].items)

(* C23: ga_visibility_for_row reports ga_present as exactly the configured GA
   features found among the row's feature flags (no other flag is listed) and
   ga_missing as the remaining GA features, with ga_total equal to the number
   of entries of the configured GA_FEATURES list and ga_present_count +
   ga_missing_count = ga_total. *)
C23_GaVisibilityCounts ==
    (IsCall("ga_visibility_for_row")
        /\ \A k \in DOMAIN call.row \ {"name"} : call.row[k].type = "list")
        => /\ "ga_total" \in DOMAIN result
           /\ SeqToSet(result.ga_present) = SeqToSet(GA_FEATURES_LIST) \cap ListedFlags
           /\ SeqToSet(result.ga_missing) = SeqToSet(GA_FEATURES_LIST) \ ListedFlags
           /\ result.ga_total = Len(GA_FEATURES_LIST)
           /\ result.ga_present_count + result.ga_missing_count = result.ga_total

-----------------------------------------------------------------------------
(* src/src/migration/airtable_sync.py: _http_with_retry and upsert_dataframe. *)
(* The server is a script: the status codes of its next responses, 200     *)
(* once the script is used up; status 0 stands for requests.request        *)
(* raising (no response).                                                  *)

Request(method, batch, status) ==
    [kind |-> "request", method |-> method, batch |-> batch, status |-> status]

\* time.sleep(backoff ** attempt)
Sleep(attempt) == [kind |-> "sleep", attempt |-> attempt]

NextStatus(script) == IF script = <<>> THEN 200 ELSE Head(script)
RestOf(script) == IF script = <<>> THEN <<>> ELSE Tail(script)

\* lines 172-179: the response raises inside the try unless it is below 400
Fails(status) == status = 0 \/ status >= 400

\* a retry loop that gives up on a 4xx other than 429
RECURSIVE http_with_retry_4xx_final(_, _, _, _, _, _)
http_with_retry_4xx_final(method, batch, script, attempt, max_retries, log) ==
    IF ~Fails(NextStatus(script))
    THEN [ok |-> TRUE, script |-> RestOf(script),
          log |-> log \o <<Request(method, batch, NextStatus(script))>>]
    ELSE IF attempt = max_retries
            \/ (NextStatus(script) \in 400..499 /\ NextStatus(script) # 429)
    THEN [ok |-> FALSE, script |-> RestOf(script),
          log |-> log \o <<Request(method, batch, NextStatus(script))>>]
    ELSE http_with_retry_4xx_final(method, batch, RestOf(script), attempt + 1, max_retries,
             log \o <<Request(method, batch, NextStatus(script)), Sleep(attempt)>>)

\* _http_with_retry: the while loop from the given attempt on; ok = FALSE is
\* the RuntimeError of line 190
RECURSIVE http_with_retry(_, _, _, _, _, _)
http_with_retry(method, batch, script, attempt, max_retries, log) ==
    IF ~Fails(NextStatus(script))
    THEN [ok |-> TRUE, script |-> RestOf(script),
          log |-> log \o <<Request(method, batch, NextStatus(script))>>]
    ELSE IF attempt = max_retries
    THEN [ok |-> FALSE, script |-> RestOf(script),
          log |-> log \o <<Request(method, batch, NextStatus(script))>>]
    ELSE http_with_retry(method, batch, RestOf(script), attempt + 1, max_retries,
             log \o <<Request(method, batch, NextStatus(script)), Sleep(attempt)>>)

\* _is_null(v)
is_null(v) ==
    \/ v.type \in {"NoneType", "float"}
    \/ v.type = "str" /\ StripChars(v.s) = ""

\* _normalize_fields(row, skip_nulls, known_fields={}) for scalar cells
normalize_fields(row, skip_nulls) ==
    IF skip_nulls
    THEN [ k \in { k \in DOMAIN row : ~is_null(row[k]) } |-> row[k] ]
    ELSE row

\* str(fields.get(key_field, "")).strip()
KeyOf(fields, key_field) == StripChars(py_str(Get(fields, key_field, PyStr(""))))

\* fetch_existing_map: key -> record, a later record replacing an earlier one
\* of the same key
fetch_existing_map(table, key_field) ==
    [ key \in { KeyOf(FieldsOf(table[i]), key_field) : i \in 1..Len(table) } \ {""} |->
        table[CHOOSE i \in 1..Len(table) :
                /\ KeyOf(FieldsOf(table[i]), key_field) = key
                /\ \A j \in (i + 1)..Len(table) : KeyOf(FieldsOf(table[j]), key_field) # key] ]

\* lines 262-281: to_create, in the order of the rows
RECURSIVE to_create(_, _, _, _)
to_create(rows, existing, key_field, skip_nulls) ==
    IF rows = <<>> THEN <<>>
    ELSE (IF KeyOf(Head(rows), key_field) # "" /\ KeyOf(Head(rows), key_field) \notin DOMAIN existing
          THEN << [fields |-> normalize_fields(Head(rows), skip_nulls)] >>
          ELSE <<>>)
         \o to_create(Tail(rows), existing, key_field, skip_nulls)

\* lines 262-281: to_update, in the order of the rows
RECURSIVE to_update(_, _, _, _)
to_update(rows, existing, key_field, skip_nulls) ==
    IF rows = <<>> THEN <<>>
    ELSE (IF /\ KeyOf(Head(rows), key_field) \in DOMAIN existing
             /\ Get(existing[KeyOf(Head(rows), key_field)], "id", "") # ""
          THEN << [id |-> existing[KeyOf(Head(rows), key_field)]["id"],
                   fields |-> normalize_fields(Head(rows), skip_nulls)] >>
          ELSE <<>>)
         \o to_update(Tail(rows), existing, key_field, skip_nulls)

\* entries[i : i + batch_size] for i in range(0, len(entries), batch_size)
RECURSIVE Batches(_, _)
Batches(entries, batch_size) ==
    IF entries = <<>> THEN <<>>
    ELSE IF Len(entries) <= batch_size THEN <<entries>>
    ELSE <<SubSeq(entries, 1, batch_size)>>
         \o Batches(SubSeq(entries, batch_size + 1, Len(entries)), batch_size)

\* one loop of lines 294-305 after a request: count the echoed records and go
\* on with the next batch, or let the RuntimeError out
RECURSIVE send_batches(_, _, _, _, _)
after_request(method, batches, max_retries, count, sent) ==
    IF ~sent.ok THEN [ok |-> FALSE, count |-> count, script |-> sent.script, log |-> sent.log]
    ELSE send_batches(method, Tail(batches), sent.script, max_retries,
                      [count |-> count + Len(Head(batches)), log |-> sent.log])

\* the loop of lines 294-298 (POST) or 301-305 (PATCH) over the batches
send_batches(method, batches, script, max_retries, acc) ==
    IF batches = <<>>
    THEN [ok |-> TRUE, count |-> acc.count, script |-> script, log |-> acc.log]
    ELSE after_request(method, batches, max_retries, acc.count,
                       http_with_retry(method, Head(batches), script, 0, max_retries, acc.log))

\* lines 293-307: the creates, then the updates, then the two counts
upsert_updated(created, updated) ==
    IF ~updated.ok THEN [raised |-> "RuntimeError", log |-> updated.log]
    ELSE [created |-> created.count, updated |-> updated.count, log |-> updated.log]

upsert_created(updates, batch_size, max_retries, created) ==
    IF ~created.ok THEN [raised |-> "RuntimeError", log |-> created.log]
    ELSE upsert_updated(created,
             send_batches("PATCH", Batches(updates, batch_size), created.script, max_retries,
                          [count |-> 0, log |-> created.log]))

\* lines 283-307 for the prepared entries
upsert_entries(creates, updates, opts, script, dry_run, log) ==
    IF dry_run THEN [created |-> Len(creates), updated |-> Len(updates), log |-> log]
    ELSE upsert_created(updates, opts.batch_size, opts.max_retries,
             send_batches("POST", Batches(creates, opts.batch_size), script, opts.max_retries,
                          [count |-> 0, log |-> log]))

\* upsert_dataframe(df, auth, opts, dry_run=...) with filter_unknown_fields off;
\* the result carries the log of what was sent
upsert_dataframe(df, table, opts, script, dry_run) ==
    IF df = <<>> THEN [created |-> 0, updated |-> 0, log |-> <<>>]
    ELSE upsert_entries(
             to_create(df, fetch_existing_map(table, opts.key_field), opts.key_field, opts.skip_nulls),
             to_update(df, fetch_existing_map(table, opts.key_field), opts.key_field, opts.skip_nulls),
             opts, script, dry_run, <<Request("GET", <<>>, 200)>>)

\* the records Airtable adds for a POST of the batch; an empty cell is not stored
created_records(table, batch) ==
    [ i \in 1..Len(batch) |->
        ("id" :> ("rec" \o ToString(Len(table) + i)))
            @@ ("fields" :> normalize_fields(batch[i].fields, TRUE)) ]

\* the table after one entry of the log: a POST or PATCH answered below 400
\* is applied, anything else leaves the table as it is
table_after(table, entry) ==
    IF entry.kind # "request" \/ Fails(entry.status) THEN table
    ELSE IF entry.method = "POST" THEN table \o created_records(table, entry.batch)
    ELSE IF entry.method = "PATCH" THEN update_records_by_id(table, entry.batch)
    ELSE table

\* the table after the requests of the log
RECURSIVE table_after_log(_, _)
table_after_log(table, log) ==
    IF log = <<>> THEN table
    ELSE table_after_log(table_after(table, Head(log)), Tail(log))

\* status codes of the script: rate limit, server error, client error, and
\* 0 for a request that raised
StatusCodes == {429, 500, 404, 0}

RECURSIVE SeqsUpTo(_, _)
SeqsUpTo(S, n) ==
    IF n = 0 THEN { <<>> }
    ELSE SeqsUpTo(S, n - 1)
         \cup { <<x>> \o q : x \in S, q \in { r \in SeqsUpTo(S, n - 1) : Len(r) = n - 1 } }

Scripts == SeqsUpTo(StatusCodes, MaxResponses)

\* the scripts an upsert is run against
UpsertScripts == { <<>>, <<429>>, <<404>>, <<500, 500>> }

KeyField == "Key"

\* rows of the DataFrame: a key cell that is text, blank, None or NaN
SyncRows ==
    { (KeyField :> k) @@ ("Foo" :> PyInt("1")) :
        k \in { PyStr("A"), PyStr(" B "), PyStr(""), PyNone, PyNaN } }
        \cup { (KeyField :> PyStr("A")) @@ ("Foo" :> PyNone) }

DataFrames == SeqsUpTo(SyncRows, MaxRows)

\* UpsertOptions(key_field="Key", table="T", batch_size=..., skip_nulls=...,
\*               max_retries=1, filter_unknown_fields=False)
UpsertOptionsSet ==
    { [key_field |-> KeyField, batch_size |-> b, skip_nulls |-> s, max_retries |-> 1] :
        b \in {1, 10}, s \in BOOLEAN }

\* the table before the first call: empty, or the one record of key B
SyncTables ==
    { <<>>, << ("id" :> "rec1") @@ ("fields" :> ((KeyField :> PyStr("B")) @@ ("Foo" :> PyInt("2")))) >> }

SyncInit ==
    /\ Construct(<<>>, <<>>, DeployedConfig)
    /\ pc = "ready"
    /\ call = NoCall
    /\ result = NoResult
    /\ records \in SyncTables
    /\ requests = <<>>
    /\ approvals = <<>>

\* what the caller gets: the counts, or the exception
Returned(outcome) ==
    IF "raised" \in DOMAIN outcome THEN Raised(outcome.raised)
    ELSE [created |-> outcome.created, updated |-> outcome.updated]

\* _http_with_retry(method, url, headers, payload, max_retries=..., backoff=...)
HttpWithRetry(method, batch, script, max_retries) ==
    /\ pc = "ready"
    /\ call' = [op |-> "_http_with_retry", method |-> method, script |-> script,
                max_retries |-> max_retries]
    /\ requests' = http_with_retry(method, batch, script, 0, max_retries, <<>>).log
    /\ result' = IF http_with_retry(method, batch, script, 0, max_retries, <<>>).ok
                 THEN [json |-> [records |-> batch]]
                 ELSE Raised("RuntimeError")
    /\ records' = table_after_log(records, requests')
    /\ pc' = "returned"
    /\ UNCHANGED engine
    /\ UNCHANGED approvals

\* created, updated = upsert_dataframe(df, auth, opts, dry_run=...)
UpsertDataframe(df, opts, script, dry_run) ==
    /\ pc = "ready"
    /\ Len(records) + Len(df) <= MaxRecords
    /\ call' = [op |-> "upsert_dataframe", df |-> df, opts |-> opts, script |-> script,
                dry_run |-> dry_run, table |-> records]
    /\ requests' = upsert_dataframe(df, records, opts, script, dry_run).log
    /\ result' = Returned(upsert_dataframe(df, records, opts, script, dry_run))
    /\ records' = table_after_log(records, requests')
    /\ pc' = "returned"
    /\ UNCHANGED engine
    /\ UNCHANGED approvals

\* the caller moves on; the log of the call is dropped
NextRequest ==
    /\ pc = "returned"
    /\ pc' = "ready"
    /\ call' = NoCall
    /\ result' = NoResult
    /\ requests' = <<>>
    /\ UNCHANGED engine
    /\ UNCHANGED <<records, approvals>>

SyncNext ==
    \/ \E method \in {"POST", "PATCH"}, script \in Scripts, max_retries \in 0..(MaxResponses - 1) :
         HttpWithRetry(method, <<>>, script, max_retries)
    \/ \E df \in DataFrames, opts \in UpsertOptionsSet, script \in UpsertScripts, dry_run \in BOOLEAN :
         UpsertDataframe(df, opts, script, dry_run)
    \/ NextRequest

SyncSpec == SyncInit /\ [][SyncNext]_vars

-----------------------------------------------------------------------------
(* Claims on the Airtable upsert *)

\* the requests of the log, without the sleeps
SentRequests == SelectSeq(requests, LAMBDA e : e.kind = "request")

\* a 4xx response other than 429
IsNonRetryable(status) == status \in 400..499 /\ status # 429

(* C26: _http_with_retry re-attempts a request only after an HTTP 429 or 5xx
   response: a 4xx response other than 429 makes the call fail after that
   single attempt, without a sleep and without the request being sent again;
   in every case at most max_retries + 1 requests are sent before a
   RuntimeError is raised or the first successful response's JSON is
   returned. *)
C26_RetryOnlyOn429And5xx ==
    IsCall("_http_with_retry") =>
        /\ Len(SentRequests) <= call.max_retries + 1
        /\ \A i \in 1..Len(requests) :
             (requests[i].kind = "request" /\ IsNonRetryable(requests[i].status))
                 => (i = Len(requests) /\ "raised" \in DOMAIN result)
        /\ "json" \in DOMAIN result => ~Fails(requests[Len(requests)].status)

\* a row whose key cell is missing, None, NaN or blank text
HasBlankKey(row) == is_null(Get(row, call.opts.key_field, PyStr("")))

\* the non-blank keys of the records of the table before the call
ExistingKeys ==
    { KeyOf(FieldsOf(call.table[i]), call.opts.key_field) :
        i \in { j \in 1..Len(call.table) : ~HasBlankKey(FieldsOf(call.table[j])) } }

\* the rows with a non-blank key that matches an existing record, and the others
RowsToUpdate ==
    { i \in 1..Len(call.df) :
        /\ ~HasBlankKey(call.df[i])
        /\ StripChars(call.df[i][call.opts.key_field].s) \in ExistingKeys }

RowsToCreate ==
    { i \in 1..Len(call.df) :
        /\ ~HasBlankKey(call.df[i])
        /\ StripChars(call.df[i][call.opts.key_field].s) \notin ExistingKeys }

(* C24: upsert_dataframe classifies every input row with a non-blank key as
   an update when its key matches an existing Airtable record and as a create
   otherwise, skips rows with a blank key, and returns (created, updated)
   equal to those two counts; with dry_run=True it returns the counts without
   issuing any POST or PATCH request. *)
C24_UpsertCountsCreatesAndUpdates ==
    IsCall("upsert_dataframe") =>
        /\ "created" \in DOMAIN result =>
             /\ result.created = Cardinality(RowsToCreate)
             /\ result.updated = Cardinality(RowsToUpdate)
        /\ call.dry_run =>
             /\ "created" \in DOMAIN result
             /\ \A i \in 1..Len(SentRequests) : SentRequests[i].method \notin {"POST", "PATCH"}

\* the same with a key counted as blank only when str(key).strip() is empty
C24_CountsByTextOfKey ==
    IsCall("upsert_dataframe") =>
        /\ "created" \in DOMAIN result =>
             /\ result.created =
                  Cardinality({ i \in 1..Len(call.df) :
                      /\ KeyOf(call.df[i], call.opts.key_field) # ""
                      /\ KeyOf(call.df[i], call.opts.key_field) \notin ExistingKeys })
             /\ result.updated =
                  Cardinality({ i \in 1..Len(call.df) :
                      KeyOf(call.df[i], call.opts.key_field) \in ExistingKeys })
        /\ call.dry_run =>
             /\ "created" \in DOMAIN result
             /\ \A i \in 1..Len(SentRequests) : SentRequests[i].method \notin {"POST", "PATCH"}

-----------------------------------------------------------------------------
(* Claims on the scores of recommend *)

\* user_count: the canonical features of the account, GA and Irrelevant included
UserCount == Cardinality(AccountFeatures)

\* the raw entries of the account that a synonym turned into another name
SynonymHits ==
    { f \in RawAccountFeatures :
        /\ SynonymsOf(f) # {}
        /\ Strip(synonyms[CHOOSE i \in SynonymsOf(f) : \A j \in SynonymsOf(f) : i <= j][2]) # Strip(f) }

\* the value a / b of a score
ScoreIs(score, a, b) == score.num * b = a * score.den

\* 30 x (coverage / user_count) + 10 - 2 x extras - 5 x synonym hits, clamped
\* to [-100, 100], as a numerator over user_count
ScoreNumerator(coverage, extras) ==
    Max(-100 * UserCount,
        Min(100 * UserCount,
            30 * coverage + (10 - 2 * extras - 5 * Cardinality(SynonymHits)) * UserCount))

\* the score of a candidate with the given coverage and feature extras
HasTheScore(score, coverage, extras) ==
    IF UserCount = 0 THEN score.num = 0
    ELSE ScoreIs(score, ScoreNumerator(coverage, extras), UserCount)

(* C25: business_value_score of every candidate equals
   30 x (coverage_count / user_count) + 10 x subtype_aligned
   - 2 x |feature_extras| - 20 x missing_critical - 5 x synonym_hits clamped
   to [-100, 100], with subtype_aligned true and missing_critical 0 as
   recommend passes them, and is exactly 0 whenever the account has no features
   (user_count = 0), regardless of the other terms. *)
C25_BusinessValueScore ==
    (IsRecommend /\ result.status = "Success") =>
        /\ \A i \in 1..Len(result.all_plans) :
             HasTheScore(result.all_plans[i].business_value_score,
                         result.all_plans[i].coverage_count,
                         Len(result.all_plans[i].feature_extras))
        /\ \A i \in 1..Len(result.all_candidates) :
             HasTheScore(result.all_candidates[i].business_value_score,
                         result.all_candidates[i].coverage_count,
                         Len(result.all_candidates[i].feature_extras))
        /\ HasTheScore(result.business_value_score,
                       Len(result.covered_features), Len(result.feature_extras))

\* an account without features gets a recommendation whose score is 0 although
\* the other terms add up to 10
C25_Witness ==
    /\ IsRecommend /\ result.status = "Success"
    /\ UserCount = 0
    /\ result.all_plans # <<>>
    /\ result.business_value_score.num = 0

\* a candidate with covered features, extras and a synonym hit
C25_ScoredCandidate ==
    /\ IsRecommend /\ result.status = "Success"
    /\ SynonymHits # {}
    /\ \E i \in 1..Len(result.all_plans) :
         /\ result.all_plans[i].coverage_count > 0
         /\ result.all_plans[i].feature_extras # <<>>

\* apply_human_override(P, E, the account's features) for the recommendation
\* the call returned
Revalidation ==
    apply_human_override(result.recommended_plan, result.feature_extras,
                         Sorted(RawAccountFeatures))

(* C27: a recommendation always survives its own re-validation: if recommend
   returns 'Success' with recommended_plan P and feature_extras E for an
   account, then apply_human_override(P, E, the account's features) returns
   'APPROVED_BY_CSM' with the same covered_features, and never
   'REJECTED_RED_LINE'. *)
C27_RecommendationSurvivesOverride ==
    (IsRecommend /\ result.status = "Success") =>
        /\ Revalidation.status = "APPROVED_BY_CSM"
        /\ Revalidation.covered_features = result.covered_features

\* a recommendation with covered features, feature extras, an applied add-on
\* and bloat, re-validated
C27_Witness ==
    /\ IsRecommend /\ result.status = "Success"
    /\ result.covered_features # <<>>
    /\ result.feature_extras # <<>>
    /\ result.addOnPlans # <<>>
    /\ result.bloat_features # <<>>
    /\ Revalidation.status = "APPROVED_BY_CSM"

\* the rows of all_plans that entered valid_candidates, by their position in
\* the catalog order of the call
ValidRows == { i \in 1..Len(result.all_plans) : result.all_plans[i].bloat_costly = <<>> }

\* row i does not sort after row j on (extras_count, bloat_weighted)
NotAfter(i, j) ==
    \/ result.all_plans[i].extras_weighted < result.all_plans[j].extras_weighted
    \/ /\ result.all_plans[i].extras_weighted = result.all_plans[j].extras_weighted
       /\ result.all_plans[i].bloat_weighted <= result.all_plans[j].bloat_weighted

\* the valid rows that no valid row sorts before
BestRows == { i \in ValidRows : \A j \in ValidRows : NotAfter(i, j) }

\* the first of the best rows in catalog order
FirstBestRow == CHOOSE i \in BestRows : \A j \in BestRows : i <= j

(* C28: within one recommend call, coverage_count and business_value_score
   of a candidate are functions of its extras_count alone (extras_count +
   coverage_count is the same number for every candidate), so two candidates
   with equal extras_count and equal bloat_weighted always tie on the third
   and fourth sort keys and the winner is decided by (extras_count,
   bloat_weighted, catalog order) only. *)
C28_WinnerDecidedByExtrasBloatAndOrder ==
    (IsRecommend /\ result.status = "Success") =>
        /\ \A i, j \in 1..Len(result.all_plans) :
             /\ result.all_plans[i].extras_weighted + result.all_plans[i].coverage_count
                  = result.all_plans[j].extras_weighted + result.all_plans[j].coverage_count
             /\ result.all_plans[i].extras_weighted = result.all_plans[j].extras_weighted =>
                  /\ result.all_plans[i].coverage_count = result.all_plans[j].coverage_count
                  /\ ScoreIs(result.all_plans[i].business_value_score,
                             result.all_plans[j].business_value_score.num,
                             result.all_plans[j].business_value_score.den)
        /\ BestRows # {}
        /\ result.all_candidates[1] = result.all_plans[FirstBestRow]
        /\ result.recommended_plan = result.all_plans[FirstBestRow].plan

\* two valid candidates tie on extras_count and bloat_weighted, and the one
\* that is first in catalog order wins
C28_Witness ==
    /\ IsRecommend /\ result.status = "Success"
    /\ Cardinality(BestRows) >= 2
    /\ \E j \in BestRows : result.all_plans[j].plan # result.recommended_plan
    /\ result.recommended_plan = result.all_plans[FirstBestRow].plan

(* C29: GA and Irrelevant features of the account do not lower its scores:
   when the winning plan covers every counted (Normal) feature of the account
   (extras_count = 0) and the account has a counted feature, the coverage
   term of migration_confidence and of business_value_score is the full 30
   points, however many GA or Irrelevant features the account also has. *)
C29_UncountedFeaturesDoNotLowerScores ==
    (/\ IsRecommend /\ result.status = "Success"
     /\ result.extras_count = 0
     /\ CountedAccountFeatures # {}) =>
        /\ ScoreIs(result.business_value_score,
                   Max(-100, Min(100, 30 + 10 - 5 * Cardinality(SynonymHits))), 1)
        /\ ScoreIs(result.migration_confidence,
                   Max(0, Min(100, 30 + (IF result.ambiguous_mapping THEN 0 ELSE 10)
                                      - 5 * Cardinality(SynonymHits))), 1)

\* the same when every feature of the account is a counted one
C29_FullCoverageOfCountedAccounts ==
    (/\ IsRecommend /\ result.status = "Success"
     /\ result.extras_count = 0
     /\ CountedAccountFeatures # {}
     /\ Cardinality(CountedAccountFeatures) = UserCount) =>
        /\ ScoreIs(result.business_value_score,
                   Max(-100, Min(100, 30 + 10 - 5 * Cardinality(SynonymHits))), 1)
        /\ ScoreIs(result.migration_confidence,
                   Max(0, Min(100, 30 + (IF result.ambiguous_mapping THEN 0 ELSE 10)
                                      - 5 * Cardinality(SynonymHits))), 1)

-----------------------------------------------------------------------------
(* src/src/persistence.py: ApprovalsStore over its in-memory DataFrame.     *)
(* A row is a dict from column to cell; a column a row has no cell for is   *)
(* the NaN pandas fills in.                                                 *)

\* _to_list(val) for None and for a list of strings
to_list(val) ==
    IF val.type = "NoneType" THEN <<>>
    ELSE SelectSeq(StripAll(val.items), LAMBDA x : x # "")

\* lines 111-116: the applied add-on plans named by the details
applied_from_details(details) ==
    IF "Applied Add-on Plans" \in DOMAIN details THEN to_list(details["Applied Add-on Plans"])
    ELSE IF "addOnPlans" \in DOMAIN details THEN to_list(details["addOnPlans"])
    ELSE <<>>

\* lines 117-124: the first occurrence of every entry, compared lower-cased
RECURSIVE merged_extras(_, _, _)
merged_extras(xs, seen, acc) ==
    IF xs = <<>> THEN acc
    ELSE IF LowerChars(StripChars(Head(xs))) # "" /\ LowerChars(StripChars(Head(xs))) \notin seen
    THEN merged_extras(Tail(xs), seen \cup {LowerChars(StripChars(Head(xs)))},
                       Append(acc, StripChars(Head(xs))))
    ELSE merged_extras(Tail(xs), seen, acc)

\* json.dumps(items, ensure_ascii=False) for a list of strings without quotes
RECURSIVE json_items(_)
json_items(items) ==
    IF items = <<>> THEN ""
    ELSE IF Len(items) = 1 THEN "\"" \o items[1] \o "\""
    ELSE "\"" \o items[1] \o "\", " \o json_items(Tail(items))

json_dumps(items) == "[" \o json_items(items) \o "]"

\* lines 161-173: the cell a value of the details is saved as
detail_cell(v) == IF v.type = "list" THEN PyStr(json_dumps(v.items)) ELSE v

\* lines 131-173: the row of the upsert; a key of the details other than
\* 'Add-ons needed' replaces the cell of the same name
upsert_row(account, subtype, final_plan, extras_str, approved_by, ts, details) ==
    [ k \in { k \in DOMAIN details : StripChars(k) # "Add-ons needed" } |->
        detail_cell(details[k]) ]
    @@ [ k \in {"Account", "Sub Type", "Final Plan", "Add-ons needed", "Approved By", "Approved At"} |->
           CASE k = "Account" -> PyStr(account)
             [] k = "Sub Type" -> PyStr(subtype)
             [] k = "Final Plan" -> PyStr(final_plan)
             [] k = "Add-ons needed" -> PyStr(extras_str)
             [] k = "Approved By" -> PyStr(approved_by)
             [] k = "Approved At" -> PyInt(ts) ]

\* an upsert that never finds the account's row
first_match_none(df, account) == 0

\* lines 125-129: the position of the first row of the account, 0 for None
first_match(df, account) ==
    IF \E i \in 1..Len(df) : df[i]["Account"] = PyStr(account)
    THEN CHOOSE i \in 1..Len(df) :
             /\ df[i]["Account"] = PyStr(account)
             /\ \A j \in 1..(i - 1) : df[j]["Account"] # PyStr(account)
    ELSE 0

\* lines 175-179: a new row is appended, the cells of an old one are overwritten
upsert_at(df, idx, row) ==
    IF idx = 0 THEN Append(df, row)
    ELSE [df EXCEPT ![idx] = row @@ df[idx]]

\* ApprovalsStore.upsert(account, subtype, final_plan, extras, approved_by, details)
\* at the time ts
upsert(df, account, subtype, final_plan, extras, approved_by, details, ts) ==
    upsert_at(df, first_match(df, account),
        upsert_row(account, subtype, final_plan,
                   Join(merged_extras(to_list(extras) \o applied_from_details(details), {}, <<>>)),
                   approved_by, ts, details))

\* lines 75-77: the row with its add-ons parsed as a list
parsed_row(row) ==
    ("Add-ons needed" :>
        PyList(SelectSeq(StripAll(Split(py_str(Get(row, "Add-ons needed", PyStr(""))), ",")),
                         LAMBDA x : x # "")))
    @@ row

\* lines 71-74: the first of the account's rows, or None
first_row(rows) == IF rows = <<>> THEN PyNone ELSE parsed_row(rows[1])

\* ApprovalsStore.get(account)
get(df, account) == first_row(SelectSeq(df, LAMBDA r : r["Account"] = PyStr(account)))

\* ApprovalsStore.delete(account): the rows left
delete(df, account) == SelectSeq(df, LAMBDA r : r["Account"] # PyStr(account))

\* ApprovalsStore.delete_many(accounts): the rows left
delete_many(df, accounts) ==
    IF accounts = <<>> THEN df
    ELSE SelectSeq(df, LAMBDA r : py_str(r["Account"]) \notin SeqToSet(accounts))

\* the accounts, plans, extras and details of the explored calls
ApprovalAccounts == {"Acme", "Borealis"}
ApprovalPlans == {"Shipowners Core", "Bunkering Safe"}
ApprovalExtras ==
    { PyList(<<>>), PyList(<<"exportCenter">>), PyList(<<" uboData ", "UBODATA", "", "exportCenter">>) }
NoDetails == EmptyDict
ApprovalDetails ==
    { NoDetails,
      ("plan" :> PyStr("Bunkering Safe")) @@ ("Add-ons needed" :> PyList(<<"cddScreening">>))
          @@ ("Comment" :> PyStr("ok")),
      ("addOnPlans" :> PyList(<<"Weather Pack", "uboData">>)) }
AccountLists == { <<>>, <<"Acme">>, <<"Borealis", "Acme">>, <<"Zenith">> }
Timestamp == "1700000000"

PersistInit ==
    /\ Construct(<<>>, <<>>, DeployedConfig)
    /\ pc = "ready"
    /\ call = NoCall
    /\ result = NoResult
    /\ ServicesIdle

\* store.upsert(account, subtype, final_plan, extras, approved_by, details=details)
Upsert(account, final_plan, extras, details) ==
    /\ pc = "ready"
    /\ Len(approvals) < MaxApprovals
    /\ call' = [op |-> "upsert", account |-> account, final_plan |-> final_plan,
                extras |-> extras, details |-> details, before |-> approvals]
    /\ approvals' = upsert(approvals, account, "Shipowner", final_plan, extras, "csm",
                           details, Timestamp)
    /\ result' = [value |-> PyNone]
    /\ pc' = "returned"
    /\ UNCHANGED engine
    /\ UNCHANGED <<records, requests>>

\* ok = store.delete(account)
Delete(account) ==
    /\ pc = "ready"
    /\ call' = [op |-> "delete", account |-> account, before |-> approvals]
    /\ approvals' = delete(approvals, account)
    /\ result' = [value |-> PyBool(Len(approvals') # Len(approvals))]
    /\ pc' = "returned"
    /\ UNCHANGED engine
    /\ UNCHANGED <<records, requests>>

\* removed = store.delete_many(accounts)
DeleteMany(accounts) ==
    /\ pc = "ready"
    /\ call' = [op |-> "delete_many", accounts |-> accounts, before |-> approvals]
    /\ approvals' = delete_many(approvals, accounts)
    /\ result' = [removed |-> Len(approvals) - Len(approvals')]
    /\ pc' = "returned"
    /\ UNCHANGED engine
    /\ UNCHANGED <<records, requests>>

\* approved = store.get(account)
GetApproval(account) ==
    /\ pc = "ready"
    /\ call' = [op |-> "get", account |-> account, before |-> approvals]
    /\ result' = [value |-> get(approvals, account)]
    /\ pc' = "returned"
    /\ UNCHANGED engine
    /\ UNCHANGED services

PersistNext ==
    \/ \E account \in ApprovalAccounts, final_plan \in ApprovalPlans,
          extras \in ApprovalExtras, details \in ApprovalDetails :
         Upsert(account, final_plan, extras, details)
    \/ \E account \in ApprovalAccounts \cup {"Zenith"} : Delete(account)
    \/ \E accounts \in AccountLists : DeleteMany(accounts)
    \/ \E account \in ApprovalAccounts \cup {"Zenith"} : GetApproval(account)
    \/ NextRequest

PersistSpec == PersistInit /\ [][PersistNext]_vars

-----------------------------------------------------------------------------
(* Claims on the approvals store *)

\* the accounts a call can name
NamedAccounts == ApprovalAccounts \cup {"Zenith"}

\* the store holds at most one row per Account
OneRowPerAccount ==
    \A i, j \in 1..Len(approvals) :
        approvals[i]["Account"] = approvals[j]["Account"] => i = j

\* the add-ons an upsert names: its extras and the applied add-on plans of
\* its details, blanks left out
NamedAddOns ==
    { x \in SeqToSet(call.extras.items)
            \cup (IF "addOnPlans" \in DOMAIN call.details
                  THEN SeqToSet(call.details["addOnPlans"].items) ELSE {}) :
        StripChars(x) # "" }

\* the list is the named add-ons, stripped, each once whatever its case
AreTheNamedAddOns(items) ==
    /\ \A i \in 1..Len(items) : \E x \in NamedAddOns : items[i] = StripChars(x)
    /\ \A x \in NamedAddOns :
         \E i \in 1..Len(items) : LowerChars(items[i]) = LowerChars(StripChars(x))
    /\ \A i, j \in 1..Len(items) :
         LowerChars(items[i]) = LowerChars(items[j]) => i = j

\* get answers for every account but a as it did before the call
OthersUnchanged(a) ==
    \A b \in NamedAccounts \ a : get(approvals, b) = get(call.before, b)

(* C30: starting from an empty ApprovalsStore, after any sequence of upsert,
   delete and delete_many calls the store holds at most one row per Account;
   get(a) returns the final plan and add-ons of the most recent upsert for a
   that was not followed by a delete of a, and returns None after delete(a),
   which reports True iff a row was removed.  The most recent upsert is
   followed through the calls: an upsert sets what get answers for its
   account, a delete makes it None, and no call changes the answer for an
   account it does not name. *)
C30_StoreKeepsTheLastApproval ==
    /\ OneRowPerAccount
    /\ IsCall("upsert") =>
         /\ get(approvals, call.account) # PyNone
         /\ get(approvals, call.account)["Account"] = PyStr(call.account)
         /\ get(approvals, call.account)["Final Plan"] = PyStr(call.final_plan)
         /\ AreTheNamedAddOns(get(approvals, call.account)["Add-ons needed"].items)
         /\ OthersUnchanged({call.account})
    /\ IsCall("delete") =>
         /\ get(approvals, call.account) = PyNone
         /\ result.value = PyBool(get(call.before, call.account) # PyNone)
         /\ result.value = PyBool(approvals # call.before)
         /\ OthersUnchanged({call.account})
    /\ IsCall("delete_many") =>
         /\ \A a \in SeqToSet(call.accounts) : get(approvals, a) = PyNone
         /\ OthersUnchanged(SeqToSet(call.accounts))
    /\ IsCall("get") => approvals = call.before

\* an upsert replaced the approval of an account that had another plan and
\* other add-ons, while the other account keeps its row
C30_Witness ==
    /\ IsCall("upsert")
    /\ Len(approvals) = 2
    /\ get(call.before, call.account) # PyNone
    /\ get(call.before, call.account)["Final Plan"] # PyStr(call.final_plan)
    /\ get(call.before, call.account)["Add-ons needed"]
         # get(approvals, call.account)["Add-ons needed"]
    /\ Len(get(approvals, call.account)["Add-ons needed"].items) >= 2

\* a delete removed the row of an account and reported True
C30_Deleted ==
    /\ IsCall("delete")
    /\ result.value = PyBool(TRUE)
    /\ Len(approvals) = 1

====
